---- MODULE Spec2Model ----
(***************************************************************************)
(* Model of the 1602 character LCD driver (LcdDriver) bit-banging a 4-line *)
(* parallel bus.  The GPIO lines are the state.  Every driver method is an *)
(* operator, translated statement by statement, that yields the sequence   *)
(* of primitives the method executes (pin write, pin mode switch, pin      *)
(* read, timer wait, entry of comSetup/comStop/comMaintain, failed         *)
(* assert); every call made through the public or private interface is one *)
(* action, which runs the method to completion, applies its primitives to  *)
(* the lines and keeps them as the event log of the call, so that the      *)
(* ordering inside a call can be stated as a predicate on the state.       *)
(* GeneralTimer is modelled on its own: the hardware counter ticks, and    *)
(* wait() runs step by step (entry, loop test, loop body) against it.      *)
(***************************************************************************)
EXTENDS Integers, Sequences, FiniteSets, TLC

VARIABLES lines,    \* GPIO: levels of EN, RS, RW, latches and directions of D4..D7
          halted,   \* an assert has failed: the program has stopped
          inited,   \* LcdDriver::init has run
          lastOp,   \* the last call and its scalar arguments
          pre,      \* the lines at the entry of the last call
          log,      \* the primitives the last call executed, in order
          ret,      \* the value the last call returned (0 for void)
          rd,       \* the read buffer the last call filled
          buf,      \* the caller's byte buffer (text, data list) handed to the call
          lcdOut,   \* nibbles the controller drives on D4..D7, one per read unit
          cfg,      \* _lcdConfig: the LcdConfig handed to the constructor
          tm        \* GeneralTimer: the hardware counter, the scale of the
                    \* instance, and the frame of the wait() in progress

vars == <<lines, halted, inited, lastOp, pre, log, ret, rd, buf, lcdOut, cfg, tm>>

(***************************************************************************)
(* Bounds of the exploration                                               *)
(***************************************************************************)
MaxLen == 3       \* longest text / data list drawn for the caller's buffer
MaxRead == 2      \* longest read (bytes) requested from parallelDataRead
TimerBits == 4    \* width of the timer counter and of its unsigned arithmetic
MaxLag == 2       \* most ticks of the counter between two steps of the loop of wait()

(***************************************************************************)
(* Program constants                                                       *)
(***************************************************************************)
TOTAL_PARALLEL_PIN == 4
totalBitPerPin == 8 \div TOTAL_PARALLEL_PIN
CUSTOM_CHAR_PATTERN_LEN == 8
MAX_TOTAL_CUSTOM_PATTERN == 8
MAX_CUSTOM_PATTERN == 16
LCD_MAX_PRINT_STRING == 32
MAX_LCD_X == 15
MAX_LCD_Y == 1

COM_TIME_SCALER == 7000
LCD_WARM_UP_TIME_NANOSEC == 49000000
LCD_FIRST_INIT_TIME_NANOSEC == 4500000
LCD_SECOND_INIT_TIME_NANOSEC == 150000
TIVA_MAX_RISE_TIME == 13
TIVA_MAX_FALSE_TIME == 14
LCD_DATA_READ_WAIT_NANOSEC == 800

LCD_STARTUP_COMMAND == 48
LCD_BEGIN_COMMAND == 32
LCD_CLEAR_COMMAND == 1
LCD_JUMP_LINE_COMMAND == 192
LCD_BUSY_BIT == 7
LCD_ADDR_COUNTER_MASK == 127
LCD_MEMUSED_PER_x8_CHAR == 8

\* The timing macros are object-like macros without parentheses: each use
\* below is the token sequence the preprocessor produces at that place.
\* wait(LCD_ADDR_SETUP_TIME_NANOSEC - TIVA_MAX_RISE_TIME)
\* the cycle, pulse, setup and hold times, where they stand alone
LCD_MIN_CYCLE_TIME_NANOSEC == 410 * COM_TIME_SCALER
LCD_PULSE_WIDTH_NANOSEC == 200 * COM_TIME_SCALER
LCD_DATA_SETUP_TIME_NANOSEC == 45 * COM_TIME_SCALER
LCD_DATA_HOLD_TIME_NANOSEC == 15 * COM_TIME_SCALER

AddrSetupWait == (35 * COM_TIME_SCALER) - TIVA_MAX_RISE_TIME
\* isReadMode ? ... : LCD_DATA_WRITE_WAIT_NANOSEC
DataWriteWait == (TIVA_MAX_RISE_TIME + (200 * COM_TIME_SCALER)) - (45 * COM_TIME_SCALER)
\* wait(LCD_DATA_SETUP_TIME_NANOSEC)
DataSetupWait == 45 * COM_TIME_SCALER
\* wait(LCD_DATA_HOLD_TIME_NANOSEC + TIVA_MAX_FALSE_TIME)
DataHoldWait == (15 * COM_TIME_SCALER) + TIVA_MAX_FALSE_TIME
\* wait(LCD_MIN_CYCLE_TIME_NANOSEC - LCD_DATA_WRITE_WAIT_NANOSEC), which is
\* 410 * 7000 - 13 + 200 * 7000 - (45 * 7000)
CycleRestWait == (((410 * COM_TIME_SCALER) - TIVA_MAX_RISE_TIME) + (200 * COM_TIME_SCALER)) - (45 * COM_TIME_SCALER)

(***************************************************************************)
(* Bit helpers (tiva_utils/bit_manipulation.h) and conversions             *)
(***************************************************************************)
Pins == 0 .. (TOTAL_PARALLEL_PIN - 1)

Pow2(n) == 2 ^ n

\* bit_get(x, BIT(n)) converted to bool, as a level 0/1
BitOf(x, n) == (x \div Pow2(n)) % 2

\* bit_set(x, BIT(n)) on a uint8_t
BitSet(x, n) == IF BitOf(x, n) = 1 THEN x ELSE (x + Pow2(n)) % 256

\* x | y on bytes
RECURSIVE OrBits(_, _, _)
OrBits(x, y, n) ==
  IF n < 0 THEN 0
  ELSE (IF BitOf(x, n) = 1 \/ BitOf(y, n) = 1 THEN Pow2(n) ELSE 0) + OrBits(x, y, n - 1)

BitOr(x, y) == OrBits(x, y, 7)

\* x & y on bytes
RECURSIVE AndBits(_, _, _)
AndBits(x, y, n) ==
  IF n < 0 THEN 0
  ELSE (IF BitOf(x, n) = 1 /\ BitOf(y, n) = 1 THEN Pow2(n) ELSE 0) + AndBits(x, y, n - 1)

BitAnd(x, y) == AndBits(x, y, 7)

B2N(flag) == IF flag THEN 1 ELSE 0

\* the value the four data lines carry, line p weighing 2^p
Nibble(lv) == lv[0] + (2 * lv[1]) + (4 * lv[2]) + (8 * lv[3])

(***************************************************************************)
(* Primitives                                                              *)
(***************************************************************************)
\* GPIO after reset, before LcdDriver::init: every pin an input, latches low
ResetLines ==
  [en |-> 0, rs |-> 0, rw |-> 0, bl |-> 0,
   dirIn |-> [p \in Pins |-> TRUE],
   d |-> [p \in Pins |-> 0]]

E(e, p, v) == [ev |-> e, pin |-> p, val |-> v]

\* a failed assert is the last primitive of a run
Halted(t) == t # <<>> /\ t[Len(t)].ev = "halt"

\* assert(cond)
assert(cond) == IF cond THEN <<>> ELSE <<E("halt", 0, 0)>>

\* statement sequencing: nothing runs after a failed assert
Then(t, u) == IF Halted(t) THEN t ELSE t \o u

\* GeneralTimer::wait as requested by the driver
wait(t) == <<E("wait", 0, t)>>

\* pinModeSwitch on data line p
pinModeSwitch(p, isInput) == <<E("mode", p, B2N(isInput))>>

\* pinWrite on data line p
pinWrite(p, output) == <<E("data", p, B2N(output))>>

\* pinRead on data line p, an input, while the controller drives nibble unit
pinRead(p, unit) == BitOf(unit, p) = 1

registerSelect(isDataReg) == <<E("rs", 0, B2N(isDataReg))>>

comSwitch(iscomEnabled) == <<E("en", 0, B2N(iscomEnabled))>>

comModeSwitch(isReadMode) == <<E("rw", 0, B2N(isReadMode))>>

(***************************************************************************)
(* Protocol phases                                                         *)
(***************************************************************************)
comSetup(isDataReg, isReadMode) ==
  LET waitTime == IF isReadMode THEN LCD_DATA_READ_WAIT_NANOSEC ELSE DataWriteWait
  IN  <<E("comSetup", 0, 0)>>
      \o registerSelect(isDataReg)
      \o comModeSwitch(isReadMode)
      \o wait(AddrSetupWait)
      \o comSwitch(TRUE)
      \o wait(waitTime)

\* variant: the enable line is not lowered
comStop_keepHigh ==
  <<E("comStop", 0, 0)>>
  \o wait(DataSetupWait)
  \o wait(DataHoldWait)

\* variant: no wait after the falling edge
comStop_noHold ==
  <<E("comStop", 0, 0)>>
  \o wait(DataSetupWait)
  \o comSwitch(FALSE)

comStop ==
  <<E("comStop", 0, 0)>>
  \o wait(DataSetupWait)
  \o comSwitch(FALSE)
  \o wait(DataHoldWait)

\* variant: the rest of the cycle is the cycle time less the write wait, as
\* the macros would give with their bodies in parentheses
comMaintain_parenthesised(isReadMode) ==
  LET waitTime == IF isReadMode THEN LCD_DATA_READ_WAIT_NANOSEC ELSE DataWriteWait
  IN  <<E("comMaintain", 0, 0)>>
      \o wait(DataSetupWait)
      \o comSwitch(FALSE)
      \o wait(LCD_MIN_CYCLE_TIME_NANOSEC - DataWriteWait)
      \o comSwitch(TRUE)
      \o wait(waitTime)

comMaintain(isReadMode) ==
  LET waitTime == IF isReadMode THEN LCD_DATA_READ_WAIT_NANOSEC ELSE DataWriteWait
  IN  <<E("comMaintain", 0, 0)>>
      \o wait(DataSetupWait)
      \o comSwitch(FALSE)
      \o wait(CycleRestWait)
      \o comSwitch(TRUE)
      \o wait(waitTime)

\* for (pin = 0; pin < TOTAL_PARALLEL_PIN; ++pin) pinModeSwitch(...)
RECURSIVE ModeLoop(_, _)
ModeLoop(isInput, pin) ==
  IF pin < TOTAL_PARALLEL_PIN
  THEN pinModeSwitch(pin, isInput) \o ModeLoop(isInput, pin + 1)
  ELSE <<>>

parallelModeSwitch(isInput) == ModeLoop(isInput, 0)

\* variant: the shift that selects the nibble is missing
RECURSIVE PinLoop_noShift(_, _, _)
PinLoop_noShift(value, shift, pin) ==
  IF pin < TOTAL_PARALLEL_PIN
  THEN pinWrite(pin, BitOf(value, pin) = 1) \o PinLoop_noShift(value, shift, pin + 1)
  ELSE <<>>

\* for (pin = 0; ...) pinWrite(parallelPinList[pin], bit_get(value >> shift, BIT(pin)))
RECURSIVE PinLoop(_, _, _)
PinLoop(value, shift, pin) ==
  IF pin < TOTAL_PARALLEL_PIN
  THEN pinWrite(pin, BitOf(value \div Pow2(shift), pin) = 1) \o PinLoop(value, shift, pin + 1)
  ELSE <<>>

(***************************************************************************)
(* Transfers                                                               *)
(***************************************************************************)
\* for (bitIndex = _totalBitPerPin - 1; bitIndex != -1; --bitIndex) of
\* parallelDataWriteSingle
RECURSIVE SingleLoop_lowFirst(_, _)
SingleLoop_lowFirst(data, bitIndex) ==
  IF bitIndex = -1 THEN <<>>
  ELSE PinLoop(data, 4 * ((totalBitPerPin - 1) - bitIndex), 0)
       \o (IF 0 # bitIndex THEN comMaintain(FALSE) ELSE <<>>)
       \o SingleLoop_lowFirst(data, bitIndex - 1)

RECURSIVE SingleLoop(_, _)
SingleLoop(data, bitIndex) ==
  IF bitIndex = -1 THEN <<>>
  ELSE PinLoop(data, 4 * bitIndex, 0)
       \o (IF 0 # bitIndex THEN comMaintain(FALSE) ELSE <<>>)
       \o SingleLoop(data, bitIndex - 1)

parallelDataWriteSingle(data, isDataReg) ==
  parallelModeSwitch(FALSE)
  \o comSetup(isDataReg, FALSE)
  \o SingleLoop(data % 256, totalBitPerPin - 1)
  \o comStop

\* the two nested loops of parallelDataWrite; dataIndex counts from 0 as in
\* the code, dataList is indexed from 1
RECURSIVE WriteLoop(_, _, _, _)
WriteLoop(dataList, dataLen, dataIndex, bitIndex) ==
  IF dataIndex >= dataLen THEN <<>>
  ELSE IF bitIndex = -1 THEN WriteLoop(dataList, dataLen, dataIndex + 1, totalBitPerPin - 1)
  ELSE PinLoop(dataList[dataIndex + 1], 4 * bitIndex, 0)
       \o (IF (0 # bitIndex) \/ ((dataLen - 1) # dataIndex) THEN comMaintain(FALSE) ELSE <<>>)
       \o WriteLoop(dataList, dataLen, dataIndex, bitIndex - 1)

\* variant: the closing comStop is missing
parallelDataWrite_noStop(dataList, dataLen, isDataReg) ==
  parallelModeSwitch(FALSE)
  \o comSetup(isDataReg, FALSE)
  \o WriteLoop(dataList, dataLen, 0, totalBitPerPin - 1)

parallelDataWrite(dataList, dataLen, isDataReg) ==
  parallelModeSwitch(FALSE)
  \o comSetup(isDataReg, FALSE)
  \o WriteLoop(dataList, dataLen, 0, totalBitPerPin - 1)
  \o comStop

\* the unit the controller drives while sample number k of a read is taken
UnitAt(out, k) == IF k \in DOMAIN out THEN out[k] ELSE 0

\* variant: the nibble offset 4 * bitIndex is missing from the bit position
RECURSIVE SampleLoop_noOffset(_, _, _, _)
SampleLoop_noOffset(unit, byte, bitIndex, pin) ==
  IF pin < TOTAL_PARALLEL_PIN
  THEN LET level == pinRead(pin, unit)
           r == SampleLoop_noOffset(unit,
                                    IF level THEN BitSet(byte, pin) ELSE byte,
                                    bitIndex, pin + 1)
       IN  [log |-> <<E("read", pin, B2N(level))>> \o r.log, val |-> r.val]
  ELSE [log |-> <<>>, val |-> byte]

\* for (pin = 0; ...) if (pinRead(...)) bit_set(readDataBuf[dataIndex], BIT(pin + 4 * bitIndex));
\* yields the primitives and the new value of readDataBuf[dataIndex]
RECURSIVE SampleLoop(_, _, _, _)
SampleLoop(unit, byte, bitIndex, pin) ==
  IF pin < TOTAL_PARALLEL_PIN
  THEN LET level == pinRead(pin, unit)
           r == SampleLoop(unit,
                           IF level THEN BitSet(byte, pin + (4 * bitIndex)) ELSE byte,
                           bitIndex, pin + 1)
       IN  [log |-> <<E("read", pin, B2N(level))>> \o r.log, val |-> r.val]
  ELSE [log |-> <<>>, val |-> byte]

\* the two nested loops of parallelDataRead; yields the primitives and readDataBuf
RECURSIVE ReadLoop(_, _, _, _, _)
ReadLoop(out, totalReadData, readDataBuf, dataIndex, bitIndex) ==
  IF dataIndex >= totalReadData THEN [log |-> <<>>, rd |-> readDataBuf]
  ELSE IF bitIndex = -1
  THEN ReadLoop(out, totalReadData, readDataBuf, dataIndex + 1, totalBitPerPin - 1)
  ELSE LET k == (dataIndex * totalBitPerPin) + (totalBitPerPin - bitIndex)
           s == SampleLoop(UnitAt(out, k), readDataBuf[dataIndex + 1], bitIndex, 0)
           r == ReadLoop(out, totalReadData,
                         [readDataBuf EXCEPT ![dataIndex + 1] = s.val],
                         dataIndex, bitIndex - 1)
       IN  [log |-> s.log
                    \o (IF (0 # bitIndex) \/ ((totalReadData - 1) # dataIndex)
                        THEN comMaintain(TRUE) ELSE <<>>)
                    \o r.log,
            rd |-> r.rd]

\* variant: the data lines are not switched to inputs first
parallelDataRead_noModeSwitch(isDataReg, totalReadData, out) ==
  LET r == ReadLoop(out, totalReadData, [i \in 1 .. totalReadData |-> 0],
                    0, totalBitPerPin - 1)
  IN  [log |-> comSetup(isDataReg, TRUE) \o r.log \o comStop,
       rd |-> r.rd]

\* variant: the data lines are switched to inputs after comSetup
parallelDataRead_switchAfterSetup(isDataReg, totalReadData, out) ==
  LET r == ReadLoop(out, totalReadData, [i \in 1 .. totalReadData |-> 0],
                    0, totalBitPerPin - 1)
  IN  [log |-> comSetup(isDataReg, TRUE) \o parallelModeSwitch(TRUE) \o r.log \o comStop,
       rd |-> r.rd]

parallelDataRead(isDataReg, totalReadData, out) ==
  LET r == ReadLoop(out, totalReadData, [i \in 1 .. totalReadData |-> 0],
                    0, totalBitPerPin - 1)
  IN  [log |-> parallelModeSwitch(TRUE) \o comSetup(isDataReg, TRUE) \o r.log \o comStop,
       rd |-> r.rd]

dataWrite4Bit(dataToWrite, stopAfterWrite) ==
  comSetup(FALSE, FALSE)
  \o PinLoop(dataToWrite, IF 4 = TOTAL_PARALLEL_PIN THEN 4 ELSE 0, 0)
  \o (IF stopAfterWrite THEN comStop ELSE comMaintain(FALSE))

\* variant: the two address-space bits are exchanged
addrCounterChange_swapped(addr, isDataRam) ==
  parallelDataWriteSingle(BitOr(addr, IF isDataRam THEN Pow2(6) ELSE Pow2(7)), FALSE)

addrCounterChange(addr, isDataRam) ==
  parallelDataWriteSingle(BitOr(addr, IF isDataRam THEN Pow2(7) ELSE Pow2(6)), FALSE)

\* yields the primitives and the returned byte
instructionDataRead(out) ==
  LET r == parallelDataRead(FALSE, 1, out)
  IN  [log |-> r.log, ret |-> r.rd[1]]

addrCounterGet(out) ==
  LET r == instructionDataRead(out)
  IN  [log |-> r.log, ret |-> BitAnd(r.ret, LCD_ADDR_COUNTER_MASK)]

\* variant: the busy flag taken from bit 6
lcdIsBusy_bit6(out) ==
  LET r == instructionDataRead(out)
  IN  [log |-> r.log, ret |-> B2N(BitAnd(r.ret, Pow2(LCD_BUSY_BIT - 1)) # 0)]

\* the returned bool as 0/1
lcdIsBusy(out) ==
  LET r == instructionDataRead(out)
  IN  [log |-> r.log, ret |-> B2N(BitAnd(r.ret, Pow2(LCD_BUSY_BIT)) # 0)]

(***************************************************************************)
(* RAM access                                                              *)
(***************************************************************************)
\* <cctype> in the "C" locale
\* variant: the horizontal tab is not taken for whitespace
isspace_noTab(c) == c \in {10, 11, 12, 13, 32}

isspace(c) == c \in {9, 10, 11, 12, 13, 32}
isdigit(c) == c \in 48 .. 57

\* variant: the ++strIndex that skips the digit of an escape is missing
RECURSIVE RamLoop_noSkip(_, _, _, _)
RamLoop_noSkip(bytes, dataLen, isTextMode, strIndex) ==
  IF strIndex >= dataLen THEN <<>>
  ELSE LET c == bytes[strIndex + 1]
       IN  IF isTextMode
           THEN IF isspace(c)
                THEN IF 10 = c
                     THEN parallelDataWriteSingle(LCD_JUMP_LINE_COMMAND, FALSE)
                          \o RamLoop_noSkip(bytes, dataLen, isTextMode, strIndex + 1)
                     ELSE IF 32 = c
                     THEN parallelDataWriteSingle(c, TRUE)
                          \o RamLoop_noSkip(bytes, dataLen, isTextMode, strIndex + 1)
                     ELSE RamLoop_noSkip(bytes, dataLen, isTextMode, strIndex + 1)
                ELSE IF (96 = c) /\ (strIndex < dataLen - 1)
                        /\ isdigit(bytes[strIndex + 2])
                        /\ (bytes[strIndex + 2] - 48 < MAX_TOTAL_CUSTOM_PATTERN)
                THEN parallelDataWriteSingle(bytes[strIndex + 2] - 48, TRUE)
                     \o RamLoop_noSkip(bytes, dataLen, isTextMode, strIndex + 1)
                ELSE parallelDataWriteSingle(c, TRUE)
                     \o RamLoop_noSkip(bytes, dataLen, isTextMode, strIndex + 1)
           ELSE parallelDataWriteSingle(c, TRUE)
                \o RamLoop_noSkip(bytes, dataLen, isTextMode, strIndex + 1)

\* variant: a newline is written to the data register like any other byte
RECURSIVE RamLoop_newlineAsData(_, _, _, _)
RamLoop_newlineAsData(bytes, dataLen, isTextMode, strIndex) ==
  IF strIndex >= dataLen THEN <<>>
  ELSE LET c == bytes[strIndex + 1]
       IN  IF isTextMode
           THEN IF isspace(c)
                THEN IF 10 = c
                     THEN parallelDataWriteSingle(c, TRUE)
                          \o RamLoop_newlineAsData(bytes, dataLen, isTextMode, strIndex + 1)
                     ELSE IF 32 = c
                     THEN parallelDataWriteSingle(c, TRUE)
                          \o RamLoop_newlineAsData(bytes, dataLen, isTextMode, strIndex + 1)
                     ELSE RamLoop_newlineAsData(bytes, dataLen, isTextMode, strIndex + 1)
                ELSE IF (96 = c) /\ (strIndex < dataLen - 1)
                        /\ isdigit(bytes[strIndex + 2])
                        /\ (bytes[strIndex + 2] - 48 < MAX_TOTAL_CUSTOM_PATTERN)
                THEN parallelDataWriteSingle(bytes[strIndex + 2] - 48, TRUE)
                     \o RamLoop_newlineAsData(bytes, dataLen, isTextMode, strIndex + 2)
                ELSE parallelDataWriteSingle(c, TRUE)
                     \o RamLoop_newlineAsData(bytes, dataLen, isTextMode, strIndex + 1)
           ELSE parallelDataWriteSingle(c, TRUE)
                \o RamLoop_newlineAsData(bytes, dataLen, isTextMode, strIndex + 1)

\* variant: every digit after the marker is taken as a slot
RECURSIVE RamLoop_anyDigit(_, _, _, _)
RamLoop_anyDigit(bytes, dataLen, isTextMode, strIndex) ==
  IF strIndex >= dataLen THEN <<>>
  ELSE LET c == bytes[strIndex + 1]
       IN  IF isTextMode
           THEN IF isspace(c)
                THEN IF 10 = c
                     THEN parallelDataWriteSingle(LCD_JUMP_LINE_COMMAND, FALSE)
                          \o RamLoop_anyDigit(bytes, dataLen, isTextMode, strIndex + 1)
                     ELSE IF 32 = c
                     THEN parallelDataWriteSingle(c, TRUE)
                          \o RamLoop_anyDigit(bytes, dataLen, isTextMode, strIndex + 1)
                     ELSE RamLoop_anyDigit(bytes, dataLen, isTextMode, strIndex + 1)
                ELSE IF (96 = c) /\ (strIndex < dataLen - 1)
                        /\ isdigit(bytes[strIndex + 2])
                THEN parallelDataWriteSingle(bytes[strIndex + 2] - 48, TRUE)
                     \o RamLoop_anyDigit(bytes, dataLen, isTextMode, strIndex + 2)
                ELSE parallelDataWriteSingle(c, TRUE)
                     \o RamLoop_anyDigit(bytes, dataLen, isTextMode, strIndex + 1)
           ELSE parallelDataWriteSingle(c, TRUE)
                \o RamLoop_anyDigit(bytes, dataLen, isTextMode, strIndex + 1)

\* for (strIndex = 0; strIndex < dataLen; ++strIndex) of ramDataWrite;
\* bytes is indexed from 1
RECURSIVE RamLoop(_, _, _, _)
RamLoop(bytes, dataLen, isTextMode, strIndex) ==
  IF strIndex >= dataLen THEN <<>>
  ELSE LET c == bytes[strIndex + 1]
       IN  IF isTextMode
           THEN IF isspace(c)
                THEN IF 10 = c
                     THEN parallelDataWriteSingle(LCD_JUMP_LINE_COMMAND, FALSE)
                          \o RamLoop(bytes, dataLen, isTextMode, strIndex + 1)
                     ELSE IF 32 = c
                     THEN parallelDataWriteSingle(c, TRUE)
                          \o RamLoop(bytes, dataLen, isTextMode, strIndex + 1)
                     ELSE RamLoop(bytes, dataLen, isTextMode, strIndex + 1)
                ELSE IF (96 = c) /\ (strIndex < dataLen - 1)
                        /\ isdigit(bytes[strIndex + 2])
                        /\ (bytes[strIndex + 2] - 48 < MAX_TOTAL_CUSTOM_PATTERN)
                THEN parallelDataWriteSingle(bytes[strIndex + 2] - 48, TRUE)
                     \o RamLoop(bytes, dataLen, isTextMode, strIndex + 2)
                ELSE parallelDataWriteSingle(c, TRUE)
                     \o RamLoop(bytes, dataLen, isTextMode, strIndex + 1)
           ELSE parallelDataWriteSingle(c, TRUE)
                \o RamLoop(bytes, dataLen, isTextMode, strIndex + 1)

\* the indices of data[] the loop of ramDataWrite reads, counted from 0 as in
\* the code: data[strIndex] at each turn, data[strIndex + 1] where the
\* conditions left of it in the && chain hold
RECURSIVE RamReads(_, _, _, _)
RamReads(bytes, dataLen, isTextMode, strIndex) ==
  IF strIndex >= dataLen \/ strIndex >= Len(bytes) THEN {}
  ELSE LET c == bytes[strIndex + 1]
           peeks == isTextMode /\ ~isspace(c) /\ (96 = c) /\ (strIndex < dataLen - 1)
           next == IF peeks /\ strIndex + 2 <= Len(bytes)
                      /\ isdigit(bytes[strIndex + 2])
                      /\ (bytes[strIndex + 2] - 48 < MAX_TOTAL_CUSTOM_PATTERN)
                   THEN strIndex + 2 ELSE strIndex + 1
       IN  {strIndex} \cup (IF peeks THEN {strIndex + 1} ELSE {})
           \cup RamReads(bytes, dataLen, isTextMode, next)

\* variant: the buffer is rendered as text whatever isTextMode says
ramDataWrite_alwaysText(data, dataLen, isTextMode) ==
  Then(assert(~data.null),
  Then(assert(dataLen > 0),
       RamLoop(data.bytes, dataLen, TRUE, 0)))

\* data is the caller's buffer: [null |-> BOOLEAN, bytes |-> sequence of bytes]
ramDataWrite(data, dataLen, isTextMode) ==
  Then(assert(~data.null),
  Then(assert(dataLen > 0),
       RamLoop(data.bytes, dataLen, isTextMode, 0)))

\* yields the primitives and the filled buffer
ramDataRead(returnNull, totalDataRead, startingRamAddr, isDataRam, out) ==
  LET a == Then(assert(~returnNull), assert(totalDataRead > 0))
      r == parallelDataRead(TRUE, totalDataRead, out)
  IN  IF Halted(a) THEN [log |-> a, rd |-> <<>>]
      ELSE [log |-> addrCounterChange(startingRamAddr, isDataRam) \o r.log, rd |-> r.rd]

(***************************************************************************)
(* Command encoders                                                        *)
(***************************************************************************)
entryModeCommandCreate(cursorRightDir, displayShiftEnabled) ==
  LET r0 == BitSet(0, 2)
      r1 == IF cursorRightDir THEN BitSet(r0, 1) ELSE r0
  IN  IF displayShiftEnabled THEN BitSet(r1, 0) ELSE r1

displayCommandCreate(displayOn, cursorOn, isCursorBlink) ==
  LET r0 == BitSet(0, 3)
      r1 == IF displayOn THEN BitSet(r0, 2) ELSE r0
      r2 == IF cursorOn THEN BitSet(r1, 1) ELSE r1
  IN  IF isCursorBlink THEN BitSet(r2, 0) ELSE r2

\* variant: the font flag sets bit 1
functionSetCommandCreate_fontBit1(is8BitDataLen, is2Lines, is5x10Font) ==
  LET r0 == BitSet(0, 5)
      r1 == IF is8BitDataLen THEN BitSet(r0, 4) ELSE r0
      r2 == IF is2Lines THEN BitSet(r1, 3) ELSE r1
  IN  IF is5x10Font THEN BitSet(r2, 1) ELSE r2

functionSetCommandCreate(is8BitDataLen, is2Lines, is5x10Font) ==
  LET r0 == BitSet(0, 5)
      r1 == IF is8BitDataLen THEN BitSet(r0, 4) ELSE r0
      r2 == IF is2Lines THEN BitSet(r1, 3) ELSE r1
  IN  IF is5x10Font THEN BitSet(r2, 2) ELSE r2

\* variant: the direction flag sets bit 5
cursorDisplayShiftCommandCreate_rightBit5(isShiftDisplay, isRight) ==
  LET r0 == BitSet(0, 4)
      r1 == IF isShiftDisplay THEN BitSet(r0, 3) ELSE r0
  IN  IF isRight THEN BitSet(r1, 5) ELSE r1

cursorDisplayShiftCommandCreate(isShiftDisplay, isRight) ==
  LET r0 == BitSet(0, 4)
      r1 == IF isShiftDisplay THEN BitSet(r0, 3) ELSE r0
  IN  IF isRight THEN BitSet(r1, 2) ELSE r1

(***************************************************************************)
(* Public interface                                                        *)
(***************************************************************************)
\* control lines, numbered after the data lines
RS_PIN == TOTAL_PARALLEL_PIN
RW_PIN == TOTAL_PARALLEL_PIN + 1
EN_PIN == TOTAL_PARALLEL_PIN + 2
BL_PIN == TOTAL_PARALLEL_PIN + 3

\* a pin description: the clock port, the gpio port and the gpio pin; "none"
\* stands for a value that is no SYSCTL_PERIPH_GPIOx / GPIO_PORTx_BASE, and a
\* pin number outside 0..7 for a value that is no GPIO_PIN_n
Desc(c, p, n) == [clock |-> c, port |-> p, pin |-> n]

GpioPorts == {"A", "B", "C", "D", "E", "F"}

\* the specially allocated pins that should not be used
ReservedPins ==
  {<<"A", 0>>, <<"A", 1>>, <<"A", 5>>, <<"A", 4>>, <<"A", 3>>, <<"A", 2>>,
   <<"B", 3>>, <<"B", 2>>,
   <<"C", 3>>, <<"C", 2>>, <<"C", 1>>, <<"C", 0>>,
   <<"D", 7>>,
   <<"F", 0>>}

pinDescCheck(pinDesc) ==
  Then(assert(pinDesc.clock \in GpioPorts),
  Then(assert(pinDesc.port \in GpioPorts),
  Then(assert(pinDesc.pin \in 0 .. 7),
       assert(<<pinDesc.port, pinDesc.pin>> \notin ReservedPins))))

\* pinDescCheck, enableClockPeripheral, pinModeSwitch(.., false), pinPadConfig
\* on one control line
ControlPinSetup(line, pinDesc) ==
  Then(<<E("pinDescCheck", line, 0)>> \o pinDescCheck(pinDesc),
       <<E("clock", line, 0), E("ctlmode", line, 0), E("pad", line, 0)>>)

\* for (pin = 0; ...) { pinDescCheck(...); enableClockPeripheral(...); }
RECURSIVE DataPinSetup(_, _)
DataPinSetup(parallelPinList, pin) ==
  IF pin < TOTAL_PARALLEL_PIN
  THEN Then(<<E("pinDescCheck", pin, 0)>> \o pinDescCheck(parallelPinList[pin]),
            <<E("clock", pin, 0)>> \o DataPinSetup(parallelPinList, pin + 1))
  ELSE <<>>

init(lcdConfig) ==
  Then(ControlPinSetup(RS_PIN, lcdConfig.regSelectPin),
  Then(ControlPinSetup(RW_PIN, lcdConfig.readWritePin),
  Then(ControlPinSetup(EN_PIN, lcdConfig.enablePin),
  Then(ControlPinSetup(BL_PIN, lcdConfig.backLightPin),
  Then(DataPinSetup(lcdConfig.parallelPinList, 0),
       parallelModeSwitch(FALSE))))))

\* pinWrite on the backlight line
backLedSwitch(isBackLedOn) == <<E("bl", 0, B2N(isBackLedOn))>>

\* variant: function-set built with the 8-bit flag
configWrite_8Bit ==
  LET configData == << functionSetCommandCreate(TRUE, TRUE, FALSE),
                       displayCommandCreate(TRUE, TRUE, TRUE),
                       LCD_CLEAR_COMMAND,
                       entryModeCommandCreate(TRUE, FALSE),
                       0 >>
  IN  dataWrite4Bit(LCD_BEGIN_COMMAND, FALSE)
      \o parallelDataWrite(configData, 4, FALSE)

\* variant: the configuration bytes are sent to the data register
configWrite_dataReg ==
  LET configData == << functionSetCommandCreate(FALSE, TRUE, FALSE),
                       displayCommandCreate(TRUE, TRUE, TRUE),
                       LCD_CLEAR_COMMAND,
                       entryModeCommandCreate(TRUE, FALSE),
                       0 >>
  IN  dataWrite4Bit(LCD_BEGIN_COMMAND, FALSE)
      \o parallelDataWrite(configData, 4, TRUE)

configWrite ==
  LET configData == << functionSetCommandCreate(FALSE, TRUE, FALSE),
                       displayCommandCreate(TRUE, TRUE, TRUE),
                       LCD_CLEAR_COMMAND,
                       entryModeCommandCreate(TRUE, FALSE),
                       0 >>
  IN  dataWrite4Bit(LCD_BEGIN_COMMAND, FALSE)
      \o parallelDataWrite(configData, 4, FALSE)

\* variant: the wait after the first wake-up is missing
enable_noFirstWait ==
  wait(LCD_WARM_UP_TIME_NANOSEC)
  \o dataWrite4Bit(LCD_STARTUP_COMMAND, TRUE)
  \o dataWrite4Bit(LCD_STARTUP_COMMAND, TRUE)
  \o wait(LCD_SECOND_INIT_TIME_NANOSEC)
  \o dataWrite4Bit(LCD_STARTUP_COMMAND, TRUE)
  \o configWrite

enable ==
  wait(LCD_WARM_UP_TIME_NANOSEC)
  \o dataWrite4Bit(LCD_STARTUP_COMMAND, TRUE)
  \o wait(LCD_FIRST_INIT_TIME_NANOSEC)
  \o dataWrite4Bit(LCD_STARTUP_COMMAND, TRUE)
  \o wait(LCD_SECOND_INIT_TIME_NANOSEC)
  \o dataWrite4Bit(LCD_STARTUP_COMMAND, TRUE)
  \o configWrite

\* strlen of a NUL-terminated buffer whose bytes before the terminator are s
strlen(s) ==
  IF \E i \in DOMAIN s : s[i] = 0
  THEN (CHOOSE i \in DOMAIN s : s[i] = 0 /\ \A j \in 1 .. (i - 1) : s[j] # 0) - 1
  ELSE Len(s)

\* variant: the clear-display command is not sent
displayWrite_noClear(dataToWrite) ==
  Then(assert(~dataToWrite.null),
  Then(assert(LCD_MAX_PRINT_STRING >= strlen(dataToWrite.bytes)),
       ramDataWrite(dataToWrite, strlen(dataToWrite.bytes), TRUE)))

displayWrite(dataToWrite) ==
  Then(assert(~dataToWrite.null),
  Then(assert(LCD_MAX_PRINT_STRING >= strlen(dataToWrite.bytes)),
       parallelDataWriteSingle(LCD_CLEAR_COMMAND, FALSE)
       \o ramDataWrite(dataToWrite, strlen(dataToWrite.bytes), TRUE)))

\* variant: the row is shifted by four places
cursorPositionChange_shift4(cursorX, cursorY) ==
  Then(assert(cursorX <= MAX_LCD_X /\ cursorY <= MAX_LCD_Y),
       addrCounterChange(BitOr((cursorY * 16) % 256, cursorX), TRUE))

cursorPositionChange(cursorX, cursorY) ==
  Then(assert(cursorX <= MAX_LCD_X /\ cursorY <= MAX_LCD_Y),
       addrCounterChange(BitOr((cursorY * 64) % 256, cursorX), TRUE))

displayAppend(dataToAppend) ==
  Then(assert(~dataToAppend.null),
  Then(assert(LCD_MAX_PRINT_STRING >= strlen(dataToAppend.bytes)),
       ramDataWrite(dataToAppend, strlen(dataToAppend.bytes), TRUE)))

\* variant: the slot is not scaled to the 8 bytes a pattern takes
newCustomCharAdd_noScale(charPattern, customCharSlot) ==
  Then(assert(customCharSlot < MAX_CUSTOM_PATTERN),
  Then(assert(~charPattern.null),
       addrCounterChange(customCharSlot % 256, FALSE)
       \o ramDataWrite(charPattern, CUSTOM_CHAR_PATTERN_LEN, FALSE)))

newCustomCharAdd(charPattern, customCharSlot) ==
  Then(assert(customCharSlot < MAX_CUSTOM_PATTERN),
  Then(assert(~charPattern.null),
       addrCounterChange((customCharSlot * LCD_MEMUSED_PER_x8_CHAR) % 256, FALSE)
       \o ramDataWrite(charPattern, CUSTOM_CHAR_PATTERN_LEN, FALSE)))

(***************************************************************************)
(* GeneralTimer                                                            *)
(***************************************************************************)
\* uint64_t arithmetic, at the width of the exploration
Wrap == 2 ^ TimerBits
U(x) == x % Wrap

\* the load value of the periodic up counter, 18446744073709551610 = 2^64 - 6:
\* the counter counts 0 .. TIMER_LOAD and restarts at 0
TIMER_LOAD == Wrap - 6

\* _tickToTimeScale = timerUnit / (double)(SysCtlClockGet()), kept as the
\* fraction num / den
Scale(n, d) == [num |-> n, den |-> d]

\* the conversion of a double to uint64_t: the integral part when it fits;
\* when it does not (undefined behaviour) zero, the truncated or the
\* saturated value, as conversion routines give
ToUnsigned(v) == IF v < Wrap THEN {v} ELSE {0, U(v), Wrap - 1}

\* tickCount * _tickToTimeScale; yields the set of values it may return
tickToTime(scale, tickCount) == ToUnsigned((tickCount * scale.num) \div scale.den)

\* timeAmount / _tickToTimeScale, after assert(_tickToTimeScale != 0); yields
\* the set of values it may return
timeToTick(scale, timeAmount) == ToUnsigned((timeAmount * scale.den) \div scale.num)

\* variant: the no-overflow branch is taken for equal time stamps too
stopTimer_geq(scale, intialTimeStamp, currTimeStamp) ==
  IF currTimeStamp >= intialTimeStamp
  THEN tickToTime(scale, U(currTimeStamp - intialTimeStamp))
  ELSE tickToTime(scale, U(U(TIMER_LOAD - intialTimeStamp) + currTimeStamp))

\* currTimeStamp is the value getTimeStamp returned; yields the set of values
\* stopTimer may return
stopTimer(scale, intialTimeStamp, currTimeStamp) ==
  IF currTimeStamp > intialTimeStamp
  THEN tickToTime(scale, U(currTimeStamp - intialTimeStamp))
  ELSE tickToTime(scale, U(U(TIMER_LOAD - intialTimeStamp) + currTimeStamp))

\* the ticks counted during one wait(): two periods of the counter at most
MaxAdvance == 2 * (TIMER_LOAD + 1)

\* the timer after its first construction, with its counter at c and no wait
\* in progress.  paced tells that the processor runs the loop of wait() at a
\* pace of at most MaxLag ticks a step, lag counts the ticks since its last
\* step.  isConfigured is the static _isConfigured; setups counts the
\* times the counter was configured, loaded and enabled; advanced and wraps
\* count the ticks and the restarts of the counter since wait() was entered
TimerAt(c, scale) ==
  [count |-> c, scale |-> scale, pc |-> "idle", timeToWait |-> 0,
   currTimeStamp |-> 0, tickToWait |-> 0, overFlowOffset |-> 0, bodyRan |-> FALSE,
   advanced |-> 0, wraps |-> 0, isConfigured |-> TRUE, setups |-> 1,
   paced |-> FALSE, lag |-> 0]

\* bool GeneralTimer::_isConfigured = false: no GeneralTimer was constructed,
\* the counter is not enabled
NoTimer == [TimerAt(0, Scale(1, 1)) EXCEPT !.isConfigured = FALSE, !.setups = 0]

\* the frame of an earlier call is dead when the next call is made
Idle(t) == [TimerAt(t.count, t.scale) EXCEPT !.isConfigured = t.isConfigured,
                                             !.setups = t.setups,
                                             !.paced = t.paced]

\* no GeneralTimer constructed yet, on a processor that keeps pace
NoTimerPaced == [NoTimer EXCEPT !.paced = TRUE]

(***************************************************************************)
(* Inputs                                                                  *)
(***************************************************************************)
\* the LcdConfig main() builds: B7 to RS, F4 to RW, E3 to EN, B6 to the
\* backlight, E2 E1 E0 D6 to D4..D7
MainConfig ==
  [useBacklight |-> TRUE,
   regSelectPin |-> Desc("B", "B", 7),
   readWritePin |-> Desc("F", "F", 4),
   enablePin |-> Desc("E", "E", 3),
   backLightPin |-> Desc("B", "B", 6),
   parallelPinList |-> [p \in Pins |-> IF p = TOTAL_PARALLEL_PIN - 1
                                        THEN Desc("D", "D", 6)
                                        ELSE Desc("E", "E", 2 - p)]]

\* descriptions pinDescCheck refuses: unknown clock, unknown port, unknown
\* pin, specially allocated pin
UnknownClock == Desc("none", "B", 6)
UnknownPort == Desc("B", "none", 6)
UnknownPin == Desc("B", "B", 8)
ReservedPin == Desc("A", "A", 0)
BadDescs == {UnknownClock, UnknownPort, UnknownPin, ReservedPin}

\* MainConfig with useBacklight u and the descriptions of the lines in
\* DOMAIN f replaced by those of f (data lines 0..3, then RS, RW, EN, backlight)
ConfigOf(u, f) ==
  LET at(line, d) == IF line \in DOMAIN f THEN f[line] ELSE d
  IN  [useBacklight |-> u,
       regSelectPin |-> at(RS_PIN, MainConfig.regSelectPin),
       readWritePin |-> at(RW_PIN, MainConfig.readWritePin),
       enablePin |-> at(EN_PIN, MainConfig.enablePin),
       backLightPin |-> at(BL_PIN, MainConfig.backLightPin),
       parallelPinList |-> [p \in Pins |-> at(p, MainConfig.parallelPinList[p])]]

AllLines == 0 .. BL_PIN

\* one line with any refused description, or any set of lines on a
\* specially allocated pin (none of them: a valid configuration)
Configs ==
  {ConfigOf(u, [x \in {line} |-> d]) : u \in BOOLEAN, line \in AllLines, d \in BadDescs}
  \cup {ConfigOf(u, [x \in S |-> ReservedPin]) : u \in BOOLEAN, S \in SUBSET AllLines}

\* UNIT_NANOSEC at the 80 MHz main() sets: 12.5 ns per tick
NanoScale == Scale(25, 2)

\* UNIT_MICROSEC at 1.6 MHz: five eighths of a microsecond per tick
SlowMicroScale == Scale(5, 8)

\* scales of other units and clocks: one and a half time unit per tick
Scales == {NanoScale, Scale(1, 1), Scale(1, 2), SlowMicroScale}

\* durations handed to wait
Durations == {0, 1, 3, 5, 13}

Buffer(s) == [null |-> FALSE, bytes |-> s]
NullBuffer == [null |-> TRUE, bytes |-> <<>>]

SeqsUpTo(S, n) == UNION {[1 .. k -> S] : k \in 0 .. n}

\* 'a' 'b' newline space tab backquote '3' '8'
TextAlphabet == {97, 98, 10, 32, 9, 96, 51, 56}

\* every whitespace of <cctype>, alone, between two letters, and between an
\* escape marker and a digit
SpaceTexts == UNION {{Buffer(<<w>>), Buffer(<<97, w, 98>>), Buffer(<<96, w, 51>>)} :
                       w \in {9, 10, 11, 12, 13, 32}}

\* texts of the longest accepted length and one byte more
LongTexts == {Buffer([k \in 1 .. n |-> 97]) :
                n \in {LCD_MAX_PRINT_STRING, LCD_MAX_PRINT_STRING + 1}}

\* an escape marker before the digits 0, 7 and 9, and before 9 and a letter
EscapeTexts == {Buffer(<<96, 48>>), Buffer(<<96, 55>>), Buffer(<<96, 57>>),
                Buffer(<<96, 57, 97>>)}

\* texts handed to the rendering calls
Texts == {Buffer(s) : s \in SeqsUpTo(TextAlphabet, MaxLen)}
         \cup SpaceTexts \cup LongTexts \cup EscapeTexts \cup {NullBuffer}

\* texts handed to the public interface: "a\nb", "`3", "A", tab, empty, null
ApiTexts == {Buffer(<<97, 10, 98>>), Buffer(<<96, 51>>), Buffer(<<65>>),
             Buffer(<<9>>), Buffer(<<>>), NullBuffer}

\* custom character bitmaps: charPattern0 of main(), and one whose rows are
\* bytes that text mode would interpret
Patterns == {Buffer(<<31, 24, 20, 23, 21, 21, 21, 31>>),
             Buffer(<<0, 10, 96, 51, 9, 32, 255, 128>>)}

Slots == {0, 3, 7, 8, 16}
CursorXs == {0, 5, 15, 16}
CursorYs == {0, 1, 2}

\* data lists handed to the private transfers: every single byte, and
\* lists of up to MaxLen bytes over a few values
ListBytes == {0, 65, 255}
DataLists == {Buffer(<<x>>) : x \in 0 .. 255}
             \cup {Buffer(s) : s \in SeqsUpTo(ListBytes, MaxLen)}

\* units the controller may drive during a read: every status byte as two
\* nibbles, and streams of 2 * MaxRead units over a few values
OutNibbles == {0, 5, 15}
OutStreams == {<<h, l>> : h \in 0 .. 15, l \in 0 .. 15}
              \cup [1 .. (2 * MaxRead) -> OutNibbles]

DefaultList == Buffer(<<65>>)
DefaultOut == <<8, 5>>

(***************************************************************************)
(* Effect of a run of primitives on the lines                              *)
(***************************************************************************)
Max(S) == CHOOSE x \in S : \A y \in S : y <= x

\* the value of the last primitive of kind e on pin p among t[1..i-1], or
\* dflt when there is none
LastVal(t, i, e, p, dflt) ==
  LET js == {j \in 1 .. (i - 1) : t[j].ev = e /\ t[j].pin = p}
  IN  IF js = {} THEN dflt ELSE t[Max(js)].val

\* the lines after the primitives t[1..i-1] have acted on the lines l
LinesAt(l, t, i) ==
  [en |-> LastVal(t, i, "en", 0, l.en),
   rs |-> LastVal(t, i, "rs", 0, l.rs),
   rw |-> LastVal(t, i, "rw", 0, l.rw),
   bl |-> LastVal(t, i, "bl", 0, l.bl),
   dirIn |-> [p \in Pins |-> LastVal(t, i, "mode", p, B2N(l.dirIn[p])) = 1],
   d |-> [p \in Pins |-> LastVal(t, i, "data", p, l.d[p])]]

Apply(l, t) == LinesAt(l, t, Len(t) + 1)

(***************************************************************************)
(* Actions: one per call                                                   *)
(***************************************************************************)
Op(name, n, flag) == [op |-> name, n |-> n, flag |-> flag]
NoOp == Op("none", 0, FALSE)

\* the call ran the primitives t and returned v, having filled the buffer r
Ran(t, v, r) ==
  /\ lines' = Apply(lines, t)
  /\ halted' = Halted(t)
  /\ pre' = lines
  /\ log' = t
  /\ ret' = v
  /\ rd' = r

CallInit ==
  /\ ~inited /\ ~halted
  /\ Ran(init(cfg), 0, <<>>)
  /\ inited' = TRUE
  /\ lastOp' = Op("init", 0, FALSE)
  /\ UNCHANGED <<buf, lcdOut, cfg, tm>>

CallBackLedSwitch ==
  /\ inited /\ ~halted
  /\ \E isBackLedOn \in BOOLEAN :
       /\ Ran(backLedSwitch(isBackLedOn), 0, <<>>)
       /\ lastOp' = Op("backLedSwitch", 0, isBackLedOn)
  /\ UNCHANGED <<inited, buf, lcdOut, cfg, tm>>

CallEnable ==
  /\ inited /\ ~halted
  /\ Ran(enable, 0, <<>>)
  /\ lastOp' = Op("enable", 0, FALSE)
  /\ UNCHANGED <<inited, buf, lcdOut, cfg, tm>>

CallDisplayWrite ==
  /\ inited /\ ~halted
  /\ Ran(displayWrite(buf), 0, <<>>)
  /\ lastOp' = Op("displayWrite", 0, TRUE)
  /\ UNCHANGED <<inited, buf, lcdOut, cfg, tm>>

CallDisplayAppend ==
  /\ inited /\ ~halted
  /\ Ran(displayAppend(buf), 0, <<>>)
  /\ lastOp' = Op("displayAppend", 0, TRUE)
  /\ UNCHANGED <<inited, buf, lcdOut, cfg, tm>>

CallNewCustomCharAdd ==
  /\ inited /\ ~halted
  /\ \E pattern \in Patterns, slot \in Slots :
       /\ Ran(newCustomCharAdd(pattern, slot), 0, <<>>)
       /\ lastOp' = Op("newCustomCharAdd", slot, pattern.bytes[1] # 0)
  /\ UNCHANGED <<inited, buf, lcdOut, cfg, tm>>

CallCursorPositionChange ==
  /\ inited /\ ~halted
  /\ \E x \in CursorXs, y \in CursorYs :
       /\ Ran(cursorPositionChange(x, y), 0, <<>>)
       /\ lastOp' = Op("cursorPositionChange", (32 * y) + x, TRUE)
  /\ UNCHANGED <<inited, buf, lcdOut, cfg, tm>>

\* the command encoders; lastOp.n holds the flags, the first the highest bit
CallEntryModeCommandCreate ==
  /\ ~halted
  /\ \E cursorRightDir \in BOOLEAN, displayShiftEnabled \in BOOLEAN :
       /\ Ran(<<>>, entryModeCommandCreate(cursorRightDir, displayShiftEnabled), <<>>)
       /\ lastOp' = Op("entryModeCommandCreate",
                       (2 * B2N(cursorRightDir)) + B2N(displayShiftEnabled), FALSE)
  /\ UNCHANGED <<inited, buf, lcdOut, cfg, tm>>

CallDisplayCommandCreate ==
  /\ ~halted
  /\ \E displayOn \in BOOLEAN, cursorOn \in BOOLEAN, isCursorBlink \in BOOLEAN :
       /\ Ran(<<>>, displayCommandCreate(displayOn, cursorOn, isCursorBlink), <<>>)
       /\ lastOp' = Op("displayCommandCreate",
                       (4 * B2N(displayOn)) + (2 * B2N(cursorOn)) + B2N(isCursorBlink), FALSE)
  /\ UNCHANGED <<inited, buf, lcdOut, cfg, tm>>

CallFunctionSetCommandCreate ==
  /\ ~halted
  /\ \E is8BitDataLen \in BOOLEAN, is2Lines \in BOOLEAN, is5x10Font \in BOOLEAN :
       /\ Ran(<<>>, functionSetCommandCreate(is8BitDataLen, is2Lines, is5x10Font), <<>>)
       /\ lastOp' = Op("functionSetCommandCreate",
                       (4 * B2N(is8BitDataLen)) + (2 * B2N(is2Lines)) + B2N(is5x10Font), FALSE)
  /\ UNCHANGED <<inited, buf, lcdOut, cfg, tm>>

CallCursorDisplayShiftCommandCreate ==
  /\ ~halted
  /\ \E isShiftDisplay \in BOOLEAN, isRight \in BOOLEAN :
       /\ Ran(<<>>, cursorDisplayShiftCommandCreate(isShiftDisplay, isRight), <<>>)
       /\ lastOp' = Op("cursorDisplayShiftCommandCreate",
                       (2 * B2N(isShiftDisplay)) + B2N(isRight), FALSE)
  /\ UNCHANGED <<inited, buf, lcdOut, cfg, tm>>

CallRamDataWrite ==
  /\ inited /\ ~halted
  /\ \E isTextMode \in BOOLEAN :
       /\ Ran(ramDataWrite(buf, Len(buf.bytes), isTextMode), 0, <<>>)
       /\ lastOp' = Op("ramDataWrite", Len(buf.bytes), isTextMode)
  /\ UNCHANGED <<inited, buf, lcdOut, cfg, tm>>

CallParallelDataWriteSingle ==
  /\ inited /\ ~halted /\ Len(buf.bytes) >= 1
  /\ \E isDataReg \in BOOLEAN :
       /\ Ran(parallelDataWriteSingle(buf.bytes[1], isDataReg), 0, <<>>)
       /\ lastOp' = Op("parallelDataWriteSingle", 1, isDataReg)
  /\ UNCHANGED <<inited, buf, lcdOut, cfg, tm>>

CallParallelDataWrite ==
  /\ inited /\ ~halted
  /\ \E dataLen \in 0 .. Len(buf.bytes), isDataReg \in BOOLEAN :
       /\ Ran(parallelDataWrite(buf.bytes, dataLen, isDataReg), 0, <<>>)
       /\ lastOp' = Op("parallelDataWrite", dataLen, isDataReg)
  /\ UNCHANGED <<inited, buf, lcdOut, cfg, tm>>

CallParallelDataRead ==
  /\ inited /\ ~halted
  /\ \E totalReadData \in 0 .. MaxRead, isDataReg \in BOOLEAN :
       LET r == parallelDataRead(isDataReg, totalReadData, lcdOut)
       IN  /\ Ran(r.log, 0, r.rd)
           /\ lastOp' = Op("parallelDataRead", totalReadData, isDataReg)
  /\ UNCHANGED <<inited, buf, lcdOut, cfg, tm>>

CallDataWrite4Bit ==
  /\ inited /\ ~halted
  /\ \E dataToWrite \in {LCD_STARTUP_COMMAND, LCD_BEGIN_COMMAND}, stopAfterWrite \in BOOLEAN :
       /\ Ran(dataWrite4Bit(dataToWrite, stopAfterWrite), 0, <<>>)
       /\ lastOp' = Op("dataWrite4Bit", dataToWrite, stopAfterWrite)
  /\ UNCHANGED <<inited, buf, lcdOut, cfg, tm>>

CallAddrCounterChange ==
  /\ inited /\ ~halted /\ Len(buf.bytes) >= 1
  /\ \E isDataRam \in BOOLEAN :
       /\ Ran(addrCounterChange(buf.bytes[1], isDataRam), 0, <<>>)
       /\ lastOp' = Op("addrCounterChange", buf.bytes[1], isDataRam)
  /\ UNCHANGED <<inited, buf, lcdOut, cfg, tm>>

CallInstructionDataRead ==
  /\ inited /\ ~halted
  /\ LET r == instructionDataRead(lcdOut)
     IN  Ran(r.log, r.ret, <<>>)
  /\ lastOp' = Op("instructionDataRead", 1, FALSE)
  /\ UNCHANGED <<inited, buf, lcdOut, cfg, tm>>

CallLcdIsBusy ==
  /\ inited /\ ~halted
  /\ LET r == lcdIsBusy(lcdOut)
     IN  Ran(r.log, r.ret, <<>>)
  /\ lastOp' = Op("lcdIsBusy", 1, FALSE)
  /\ UNCHANGED <<inited, buf, lcdOut, cfg, tm>>

CallAddrCounterGet ==
  /\ inited /\ ~halted
  /\ LET r == addrCounterGet(lcdOut)
     IN  Ran(r.log, r.ret, <<>>)
  /\ lastOp' = Op("addrCounterGet", 1, FALSE)
  /\ UNCHANGED <<inited, buf, lcdOut, cfg, tm>>

CallRamDataRead ==
  /\ inited /\ ~halted /\ Len(buf.bytes) >= 1
  /\ \E totalDataRead \in 0 .. MaxRead, isDataRam \in BOOLEAN :
       LET r == ramDataRead(FALSE, totalDataRead, buf.bytes[1], isDataRam, lcdOut)
       IN  /\ Ran(r.log, 0, r.rd)
           /\ lastOp' = Op("ramDataRead", totalDataRead, isDataRam)
  /\ UNCHANGED <<inited, buf, lcdOut, cfg, tm>>

\* the hardware counter advances by one tick.  Between calls nothing of the
\* call that returned is kept: its locals and its result are observed at its
\* return
Tick ==
  /\ tm.isConfigured
  /\ tm.paced => (tm.pc = "idle" \/ tm.lag < MaxLag)
  /\ IF tm.pc = "idle"
     THEN /\ tm' = [Idle(tm) EXCEPT !.count = IF @ >= TIMER_LOAD THEN 0 ELSE @ + 1]
          /\ lastOp' = NoOp
          /\ ret' = 0
     ELSE /\ tm' = [tm EXCEPT !.count = IF @ >= TIMER_LOAD THEN 0 ELSE @ + 1,
                              !.advanced = IF @ < MaxAdvance THEN @ + 1 ELSE @,
                              !.wraps = IF tm.count >= TIMER_LOAD /\ @ < 2 THEN @ + 1 ELSE @,
                              !.lag = IF tm.paced THEN @ + 1 ELSE @]
          /\ UNCHANGED <<lastOp, ret>>
  /\ UNCHANGED <<lines, halted, inited, pre, log, rd, buf, lcdOut, cfg>>

\* variant: every construction configures, loads and enables the counter
CallGeneralTimer_noLatch ==
  /\ tm.pc = "idle" /\ ~halted
  /\ \E scale \in Scales :
       tm' = [TimerAt(0, scale) EXCEPT !.setups = IF tm.setups < 2 THEN tm.setups + 1 ELSE 2,
                                       !.paced = tm.paced]
  /\ lastOp' = Op("GeneralTimer", 0, FALSE)
  /\ UNCHANGED <<lines, halted, inited, pre, log, ret, rd, buf, lcdOut, cfg>>

\* GeneralTimer(timerUnit): the scale of the new instance, and on the first
\* construction TimerConfigure, TimerLoadSet64 and TimerEnable, after which
\* the up counter runs from 0.  tm.scale is the scale of the instance the
\* next call is made on
CallGeneralTimer ==
  /\ tm.pc = "idle" /\ ~halted
  /\ \E scale \in Scales :
       tm' = IF ~tm.isConfigured
             THEN [TimerAt(0, scale) EXCEPT !.setups = IF tm.setups < 2 THEN tm.setups + 1 ELSE 2,
                                            !.paced = tm.paced]
             ELSE [Idle(tm) EXCEPT !.scale = scale]
  /\ lastOp' = Op("GeneralTimer", 0, FALSE)
  /\ UNCHANGED <<lines, halted, inited, pre, log, ret, rd, buf, lcdOut, cfg>>

\* the conversion stopTimer returns its result through, on any tick count
CallTickToTime ==
  /\ tm.isConfigured /\ tm.pc = "idle" /\ ~halted
  /\ \E tickCount \in 0 .. Wrap - 1 :
       /\ ret' \in tickToTime(tm.scale, tickCount)
       /\ lastOp' = Op("tickToTime", tickCount, FALSE)
  /\ tm' = Idle(tm)
  /\ UNCHANGED <<lines, halted, inited, pre, log, rd, buf, lcdOut, cfg>>

CallStartTimer ==
  /\ tm.isConfigured /\ tm.pc = "idle" /\ ~halted
  /\ ret' = tm.count
  /\ lastOp' = Op("startTimer", 0, FALSE)
  /\ tm' = Idle(tm)
  /\ UNCHANGED <<lines, halted, inited, pre, log, rd, buf, lcdOut, cfg>>

CallStopTimer ==
  /\ tm.isConfigured /\ tm.pc = "idle" /\ ~halted
  /\ \E intialTimeStamp \in 0 .. TIMER_LOAD :
       /\ ret' \in stopTimer(tm.scale, intialTimeStamp, tm.count)
       /\ lastOp' = Op("stopTimer", intialTimeStamp, FALSE)
  /\ tm' = [Idle(tm) EXCEPT !.currTimeStamp = tm.count]
  /\ UNCHANGED <<lines, halted, inited, pre, log, rd, buf, lcdOut, cfg>>

\* entry of wait: the two reads and the assert before the loop
CallWait ==
  /\ tm.isConfigured /\ tm.pc = "idle" /\ ~halted
  /\ \E timeToWait \in Durations :
       /\ lastOp' = Op("wait", timeToWait, FALSE)
       /\ ret' = 0
       /\ IF tm.scale.num = 0
          THEN halted' = TRUE /\ tm' = [tm EXCEPT !.currTimeStamp = tm.count]
          ELSE /\ halted' = FALSE
               /\ \E ticks \in timeToTick(tm.scale, timeToWait) :
                    tm' = [tm EXCEPT !.pc = "test", !.timeToWait = timeToWait,
                                     !.currTimeStamp = tm.count, !.tickToWait = ticks,
                                     !.overFlowOffset = 0, !.bodyRan = FALSE,
                                     !.advanced = 0, !.wraps = 0]
  /\ UNCHANGED <<lines, inited, pre, log, rd, buf, lcdOut, cfg>>

\* variant: the loop goes on while the elapsed count is at most tickToWait
WaitTest_lessEq ==
  /\ tm.pc = "test" /\ ~halted
  /\ tm' = [tm EXCEPT !.pc =
              IF U((tm.count + tm.overFlowOffset) - tm.currTimeStamp) <= tm.tickToWait
              THEN "body" ELSE "idle",
                      !.lag = 0]
  /\ UNCHANGED <<lines, halted, inited, lastOp, pre, log, ret, rd, buf, lcdOut, cfg>>

\* while (TimerValueGet64(TIMER_BASE) + overFlowOffset - currTimeStamp < tickToWait)
WaitTest ==
  /\ tm.pc = "test" /\ ~halted
  /\ tm' = [tm EXCEPT !.pc =
              IF U((tm.count + tm.overFlowOffset) - tm.currTimeStamp) < tm.tickToWait
              THEN "body" ELSE "idle",
                      !.lag = 0]
  /\ UNCHANGED <<lines, halted, inited, lastOp, pre, log, ret, rd, buf, lcdOut, cfg>>

\* if (currTimeStamp > TimerValueGet64(TIMER_BASE)) overFlowOffset = TIMER_LOAD - currTimeStamp;
WaitBody ==
  /\ tm.pc = "body" /\ ~halted
  /\ tm' = [tm EXCEPT !.pc = "test", !.bodyRan = TRUE, !.lag = 0,
                      !.overFlowOffset = IF tm.currTimeStamp > tm.count
                                         THEN U(TIMER_LOAD - tm.currTimeStamp) ELSE @]
  /\ UNCHANGED <<lines, halted, inited, lastOp, pre, log, ret, rd, buf, lcdOut, cfg>>

(***************************************************************************)
(* Specifications                                                          *)
(***************************************************************************)
\* nothing has been called yet on lines l
Fresh(l) ==
  /\ lines = l
  /\ halted = FALSE
  /\ lastOp = NoOp
  /\ pre = l
  /\ log = <<>>
  /\ ret = 0
  /\ rd = <<>>

\* the public interface as main() uses it: construction, init, then calls
Init ==
  /\ Fresh(ResetLines)
  /\ inited = FALSE
  /\ buf \in ApiTexts
  /\ lcdOut = DefaultOut
  /\ cfg = MainConfig
  /\ tm = TimerAt(0, NanoScale)

Next ==
  \/ CallInit
  \/ CallEnable
  \/ CallDisplayWrite
  \/ CallDisplayAppend
  \/ CallNewCustomCharAdd
  \/ CallCursorPositionChange

Spec == Init /\ [][Next]_vars

\* the command encoders, applied to any flags while the display is brought up
InitEncode ==
  /\ Fresh(ResetLines)
  /\ inited = FALSE
  /\ buf \in ApiTexts
  /\ lcdOut = DefaultOut
  /\ cfg = MainConfig
  /\ tm = TimerAt(0, NanoScale)

NextEncode ==
  \/ CallInit
  \/ CallEnable
  \/ CallEntryModeCommandCreate
  \/ CallDisplayCommandCreate
  \/ CallFunctionSetCommandCreate
  \/ CallCursorDisplayShiftCommandCreate

SpecEncode == InitEncode /\ [][NextEncode]_vars

\* construction with any configuration, init, then the backlight
InitSetup ==
  /\ Fresh(ResetLines)
  /\ inited = FALSE
  /\ buf = DefaultList
  /\ lcdOut = DefaultOut
  /\ cfg \in Configs
  /\ tm = TimerAt(0, NanoScale)

NextSetup ==
  \/ CallInit
  \/ CallBackLedSwitch

SpecSetup == InitSetup /\ [][NextSetup]_vars

\* no GeneralTimer constructed yet
InitTimer ==
  /\ Fresh(ResetLines)
  /\ inited = FALSE
  /\ buf = DefaultList
  /\ lcdOut = DefaultOut
  /\ cfg = MainConfig
  /\ tm = NoTimer

NextTimer ==
  \/ Tick
  \/ CallGeneralTimer
  \/ CallTickToTime
  \/ CallStartTimer
  \/ CallStopTimer
  \/ CallWait
  \/ WaitTest
  \/ WaitBody

SpecTimer == InitTimer /\ [][NextTimer]_vars

\* wait() spinning on a processor that keeps pace with the counter: the
\* counter never stops and the loop is never left waiting
InitTimerLive ==
  /\ Fresh(ResetLines)
  /\ inited = FALSE
  /\ buf = DefaultList
  /\ lcdOut = DefaultOut
  /\ cfg = MainConfig
  /\ tm = NoTimerPaced

NextTimerLive ==
  \/ Tick
  \/ CallGeneralTimer
  \/ CallWait
  \/ WaitTest
  \/ WaitBody

SpecTimerLive ==
  /\ InitTimerLive
  /\ [][NextTimerLive]_vars
  /\ WF_vars(Tick)
  /\ WF_vars(WaitTest)
  /\ WF_vars(WaitBody)

\* rendering of a text or raw buffer on an initialised, enabled display
InitText ==
  /\ Fresh(Apply(ResetLines, init(MainConfig) \o enable))
  /\ cfg = MainConfig
  /\ tm = TimerAt(0, NanoScale)
  /\ inited = TRUE
  /\ buf \in Texts
  /\ lcdOut = DefaultOut

NextText ==
  \/ CallRamDataWrite
  \/ CallDisplayWrite
  \/ CallDisplayAppend

SpecText == InitText /\ [][NextText]_vars

\* the private write transfers on an initialised driver, on any data list
InitWrite ==
  /\ Fresh(Apply(ResetLines, init(MainConfig)))
  /\ cfg = MainConfig
  /\ tm = TimerAt(0, NanoScale)
  /\ inited = TRUE
  /\ buf \in DataLists
  /\ lcdOut = DefaultOut

NextWrite ==
  \/ CallParallelDataWriteSingle
  \/ CallParallelDataWrite
  \/ CallDataWrite4Bit
  \/ CallAddrCounterChange

SpecWrite == InitWrite /\ [][NextWrite]_vars

\* write transfers, read transfers and enable() in any order on an
\* initialised driver
MixedLists == {DefaultList, Buffer(<<255, 0>>)}
MixedOuts == {DefaultOut, <<15, 15, 0, 5>>}

InitMixed ==
  /\ Fresh(Apply(ResetLines, init(MainConfig)))
  /\ cfg = MainConfig
  /\ tm = TimerAt(0, NanoScale)
  /\ inited = TRUE
  /\ buf \in MixedLists
  /\ lcdOut \in MixedOuts

NextMixed ==
  \/ CallEnable
  \/ CallParallelDataWriteSingle
  \/ CallParallelDataWrite
  \/ CallDataWrite4Bit
  \/ CallParallelDataRead
  \/ CallInstructionDataRead
  \/ CallRamDataRead

SpecMixed == InitMixed /\ [][NextMixed]_vars

\* the private read transfers on an initialised driver, on any controller output
InitRead ==
  /\ Fresh(Apply(ResetLines, init(MainConfig)))
  /\ cfg = MainConfig
  /\ tm = TimerAt(0, NanoScale)
  /\ inited = TRUE
  /\ buf = DefaultList
  /\ lcdOut \in OutStreams

NextRead ==
  \/ CallParallelDataRead
  \/ CallInstructionDataRead
  \/ CallLcdIsBusy
  \/ CallAddrCounterGet
  \/ CallRamDataRead

SpecRead == InitRead /\ [][NextRead]_vars

(***************************************************************************)
(* Observations on the event log of the last call                          *)
(***************************************************************************)
Idx(e) == {i \in DOMAIN log : log[i].ev = e}

\* the indices of S in ascending order
Ascending(S) ==
  [k \in 1 .. Cardinality(S) |-> CHOOSE i \in S : Cardinality({j \in S : j < i}) = k - 1]

\* the lines as primitive i found them
At(i) == LinesAt(pre, log, i)

\* edges of the enable line
EnAt(i) == LastVal(log, i, "en", 0, pre.en)
Rises == {i \in Idx("en") : log[i].val = 1 /\ EnAt(i) = 0}
Falls == {i \in Idx("en") : log[i].val = 0 /\ EnAt(i) = 1}
FallSeq == Ascending(Falls)

\* the phase skeleton: phase entries and completed data units (a unit is
\* complete when its last line has been written or sampled)
IsPhase(e) ==
  \/ e.ev \in {"comSetup", "comMaintain", "comStop"}
  \/ e.ev \in {"data", "read"} /\ e.pin = TOTAL_PARALLEL_PIN - 1
Skeleton == SelectSeq(log, IsPhase)

\* comSetup, then units units each followed by comMaintain except the last,
\* which is followed by comStop
OneTransfer(sk, units, kind) ==
  /\ Len(sk) = (2 * units) + 1
  /\ sk[1].ev = "comSetup"
  /\ \A k \in 1 .. units :
       /\ sk[2 * k].ev = kind
       /\ sk[(2 * k) + 1].ev = (IF k < units THEN "comMaintain" ELSE "comStop")

\* the nibble on the data lines at the k-th falling edge of enable
UnitLatched(k) == Nibble(At(FallSeq[k]).d)

\* the byte carried by the falling edges 2k-1 and 2k, high nibble first
ByteLatched(k) == (16 * UnitLatched((2 * k) - 1)) + UnitLatched(2 * k)

\* the controller drives back, unit by unit, the levels the last
\* parallelDataWriteSingle left on the data lines at each falling edge of enable
ControllerEchoes ==
  /\ lastOp.op = "parallelDataWriteSingle"
  /\ lcdOut' = [k \in DOMAIN FallSeq |-> UnitLatched(k)]
  /\ UNCHANGED <<lines, halted, inited, lastOp, pre, log, ret, rd, buf, cfg, tm>>

\* single-byte writes of every byte, read back from a controller that echoes
InitEcho ==
  /\ Fresh(Apply(ResetLines, init(MainConfig)))
  /\ cfg = MainConfig
  /\ tm = TimerAt(0, NanoScale)
  /\ inited = TRUE
  /\ buf \in {Buffer(<<b>>) : b \in 0 .. 255}
  /\ lcdOut = DefaultOut

NextEcho ==
  \/ CallParallelDataWriteSingle
  \/ ControllerEchoes
  \/ CallParallelDataRead
  \/ CallInstructionDataRead

SpecEcho == InitEcho /\ [][NextEcho]_vars

(***************************************************************************)
(* C1: parallelDataWrite of n >= 1 bytes (and parallelDataWriteSingle, for *)
(* n = 1), for either register, runs one comSetup, then 2n data units each *)
(* followed by a comMaintain except the last, which is followed by the one *)
(* comStop; the enable line falls exactly 2n times, once after each unit,  *)
(* and is low when the call returns.                                       *)
(***************************************************************************)
C1_WriteSequence ==
  (lastOp.op \in {"parallelDataWrite", "parallelDataWriteSingle"} /\ lastOp.n >= 1) =>
    LET n == lastOp.n
        unitEnds == Ascending({i \in Idx("data") : log[i].pin = TOTAL_PARALLEL_PIN - 1})
    IN  /\ OneTransfer(Skeleton, 2 * n, "data")
        /\ Cardinality(Idx("data")) = 2 * n * TOTAL_PARALLEL_PIN
        /\ Cardinality(Falls) = 2 * n
        /\ \A k \in 1 .. (2 * n) :
             /\ unitEnds[k] < FallSeq[k]
             /\ k < 2 * n => FallSeq[k] < unitEnds[k + 1] - (TOTAL_PARALLEL_PIN - 1)
             /\ At(FallSeq[k]).rs = B2N(lastOp.flag)
        /\ lines.en = 0

C1_Witness ==
  /\ lastOp = Op("parallelDataWrite", 2, TRUE)
  /\ Cardinality(Falls) = 4
  /\ Cardinality(Idx("comMaintain")) = 3
  /\ lines.en = 0

(***************************************************************************)
(* C2: with 4 data lines every byte b written by parallelDataWriteSingle   *)
(* or parallelDataWrite goes out as two units, high nibble first: at the   *)
(* falling edge that latches the first unit line p carries bit p+4 of b,   *)
(* at the next one it carries bit p of b; 0x41 shows 0100 and then 0001.   *)
(***************************************************************************)
C2_NibbleOrder ==
  (lastOp.op \in {"parallelDataWrite", "parallelDataWriteSingle"} /\ lastOp.n >= 1) =>
    /\ Cardinality(Falls) = 2 * lastOp.n
    /\ \A j \in 1 .. lastOp.n :
         LET b == buf.bytes[j]
             first == At(FallSeq[(2 * j) - 1])
             second == At(FallSeq[2 * j])
         IN  /\ \A p \in Pins :
                  /\ first.d[p] = (b \div (2 ^ (p + 4))) % 2
                  /\ second.d[p] = (b \div (2 ^ p)) % 2
                  /\ ~first.dirIn[p] /\ ~second.dirIn[p]
             /\ b = 65 =>
                  /\ <<first.d[3], first.d[2], first.d[1], first.d[0]>> = <<0, 1, 0, 0>>
                  /\ <<second.d[3], second.d[2], second.d[1], second.d[0]>> = <<0, 0, 0, 1>>

C2_Witness ==
  /\ lastOp.op = "parallelDataWriteSingle"
  /\ buf.bytes = <<65>>
  /\ Cardinality(Falls) = 2
  /\ UnitLatched(1) = 4
  /\ UnitLatched(2) = 1

(***************************************************************************)
(* C3: in every run of the public interface comSetup is entered only while *)
(* the enable line is low, and every transfer opened by a comSetup is      *)
(* closed by exactly one comStop before the next comSetup: within a call   *)
(* the phase entries comSetup and comStop alternate, starting with         *)
(* comSetup and ending with comStop.                                       *)
(***************************************************************************)
IsOpenClose(e) == e.ev \in {"comSetup", "comStop"}

C3_SetupOnlyFromIdle ==
  LET oc == SelectSeq(log, IsOpenClose)
  IN  /\ \A i \in Idx("comSetup") : At(i).en = 0
      /\ Len(oc) % 2 = 0
      /\ \A k \in DOMAIN oc : oc[k].ev = (IF k % 2 = 1 THEN "comSetup" ELSE "comStop")

(***************************************************************************)
(* C4: whenever enable, displayWrite, displayAppend, newCustomCharAdd or   *)
(* cursorPositionChange returns, the enable line is low, after any         *)
(* sequence of such calls.                                                 *)
(***************************************************************************)
BusCalls == {"enable", "displayWrite", "displayAppend", "newCustomCharAdd",
             "cursorPositionChange"}

C4_IdleOnReturn == (lastOp.op \in BusCalls /\ ~halted) => lines.en = 0

C4_Witness ==
  /\ lastOp.op = "displayWrite"
  /\ ~halted
  /\ Cardinality(Rises) >= 4
  /\ lines.en = 0

\* the time requested from the timer by the primitives strictly between a and b
RECURSIVE WaitSum(_, _)
WaitSum(a, b) ==
  IF b - a <= 1 THEN 0
  ELSE (IF log[a + 1].ev = "wait" THEN log[a + 1].val ELSE 0) + WaitSum(a + 1, b)

(***************************************************************************)
(* C5: enable() requests at least LCD_WARM_UP_TIME_NANOSEC of waiting      *)
(* before the first rising edge of enable, then sends exactly three        *)
(* wake-up transmissions, each one comSetup, the single nibble 0x3 with RS *)
(* and RW low, and its own comStop; at least LCD_FIRST_INIT_TIME_NANOSEC   *)
(* is requested between the end of the first and the start of the second,  *)
(* at least LCD_SECOND_INIT_TIME_NANOSEC between the second and the third, *)
(* and nothing else touches the bus before the third has completed.        *)
(***************************************************************************)
C5_WakeUp ==
  lastOp.op = "enable" =>
    LET rise == Ascending(Rises)
        setup == Ascending(Idx("comSetup"))
        stop == Ascending(Idx("comStop"))
        done == stop[3] + 3
        early == {i \in 1 .. done : log[i].ev # "wait"}
    IN  /\ Cardinality(Rises) >= 3 /\ Cardinality(Falls) >= 3
        /\ WaitSum(0, rise[1]) >= LCD_WARM_UP_TIME_NANOSEC
        /\ \A k \in 1 .. 3 :
             /\ setup[k] < rise[k] /\ rise[k] < stop[k] /\ stop[k] < FallSeq[k]
             /\ k < 3 => FallSeq[k] < setup[k + 1]
             /\ UnitLatched(k) = 3
             /\ At(FallSeq[k]).rs = 0 /\ At(FallSeq[k]).rw = 0
             /\ \A p \in Pins : ~At(FallSeq[k]).dirIn[p]
        /\ FallSeq[3] < done /\ done < setup[4]
        /\ WaitSum(stop[1] + 3, setup[2]) >= LCD_FIRST_INIT_TIME_NANOSEC
        /\ WaitSum(stop[2] + 3, setup[3]) >= LCD_SECOND_INIT_TIME_NANOSEC
        /\ {i \in early : log[i].ev = "en"} = {rise[1], rise[2], rise[3],
                                                FallSeq[1], FallSeq[2], FallSeq[3]}
        /\ Cardinality({i \in early : log[i].ev = "data"}) = 3 * TOTAL_PARALLEL_PIN
        /\ \A i \in early :
             /\ log[i].ev \in {"comSetup", "comStop", "rs", "rw", "en", "data"}
             /\ log[i].ev \in {"rs", "rw"} => log[i].val = 0

C5_Witness ==
  /\ lastOp.op = "enable"
  /\ WaitSum(0, Ascending(Rises)[1]) = LCD_WARM_UP_TIME_NANOSEC + AddrSetupWait
  /\ UnitLatched(1) = 3 /\ UnitLatched(2) = 3 /\ UnitLatched(3) = 3

(***************************************************************************)
(* C6: after the three wake-ups enable() makes the controller latch, with  *)
(* RS and RW low, the nibble 0x2 and then 0x28, 0x0F, 0x01, 0x06, high     *)
(* nibble first: nine more falling edges carrying 2,2,8,0,F,0,1,0,6 and    *)
(* nothing else.                                                           *)
(***************************************************************************)
C6_ConfigUnits ==
  lastOp.op = "enable" =>
    /\ Cardinality(Falls) = 12
    /\ [k \in 1 .. 9 |-> UnitLatched(k + 3)] = <<2, 2, 8, 0, 15, 0, 1, 0, 6>>
    /\ \A k \in 4 .. 12 :
         /\ At(FallSeq[k]).rs = 0 /\ At(FallSeq[k]).rw = 0
         /\ \A p \in Pins : ~At(FallSeq[k]).dirIn[p]

C6_Witness ==
  /\ lastOp.op = "enable"
  /\ Cardinality(Falls) = 12
  /\ UnitLatched(4) = 2 /\ UnitLatched(6) = 8 /\ UnitLatched(12) = 6

(***************************************************************************)
(* C7: parallelDataRead of n >= 1 bytes first switches the four data lines *)
(* to input, runs comSetup in read mode, and samples 2n units, most        *)
(* significant nibble first, a comMaintain after each unit but the last    *)
(* and then one comStop; bit p + 4*i of a byte is set exactly when line p  *)
(* read high during its unit with nibble index i, so each byte is the      *)
(* first sampled nibble times 16 plus the second.                          *)
(***************************************************************************)
C7_ReadAssembly ==
  (lastOp.op = "parallelDataRead" /\ lastOp.n >= 1) =>
    LET n == lastOp.n
        reads == Ascending(Idx("read"))
        rise == Ascending(Rises)
    IN  /\ \A p \in Pins : log[p + 1] = E("mode", p, 1)
        /\ log[TOTAL_PARALLEL_PIN + 1].ev = "comSetup"
        /\ OneTransfer(Skeleton, 2 * n, "read")
        /\ Cardinality(Idx("read")) = 2 * n * TOTAL_PARALLEL_PIN
        /\ Cardinality(Falls) = 2 * n
        /\ \A k \in 1 .. (2 * n) :
             /\ At(FallSeq[k]).rw = 1
             /\ At(FallSeq[k]).rs = B2N(lastOp.flag)
        /\ Len(rd) = n
        /\ \A j \in 1 .. n :
             /\ rd[j] = (16 * UnitAt(lcdOut, (2 * j) - 1)) + UnitAt(lcdOut, 2 * j)
             /\ \A u \in 0 .. 1 : \A p \in Pins :
                  LET i == reads[(8 * (j - 1)) + (4 * u) + p + 1]
                  IN  /\ log[i].pin = p
                      /\ log[i].val = (UnitAt(lcdOut, (2 * (j - 1)) + u + 1) \div (2 ^ p)) % 2
                      /\ (rd[j] \div (2 ^ (p + (4 * (1 - u))))) % 2 = log[i].val
        /\ lines.en = 0

C7_Witness ==
  /\ lastOp = Op("parallelDataRead", 2, TRUE)
  /\ lcdOut = <<5, 15, 0, 5>>
  /\ rd = <<95, 5>>

(***************************************************************************)
(* C8: addrCounterChange(addr, isDataRam) is exactly one single-byte write *)
(* with RS low whose value is addr OR 0x80 for the data RAM and addr OR    *)
(* 0x40 otherwise; (5, false) sends 0x45 and (5, true) sends 0x85.         *)
(***************************************************************************)
C8_AddressByte ==
  lastOp.op = "addrCounterChange" =>
    LET addr == lastOp.n
        withBit(k) == IF (addr \div (2 ^ k)) % 2 = 1 THEN addr ELSE addr + (2 ^ k)
    IN  /\ OneTransfer(Skeleton, 2, "data")
        /\ Cardinality(Falls) = 2
        /\ \A k \in 1 .. 2 : At(FallSeq[k]).rs = 0 /\ At(FallSeq[k]).rw = 0
        /\ ByteLatched(1) = (IF lastOp.flag THEN withBit(7) ELSE withBit(6))
        /\ addr = 5 => ByteLatched(1) = (IF lastOp.flag THEN 133 ELSE 69)

C8_Witness ==
  /\ lastOp = Op("addrCounterChange", 5, TRUE)
  /\ ByteLatched(1) = 133

(***************************************************************************)
(* C9: instructionDataRead is exactly one single-byte read with RS low and *)
(* RW high, whatever the busy flag says; for every status byte s it        *)
(* returns s, lcdIsBusy returns bit 7 of s and addrCounterGet returns      *)
(* s mod 128, so 0b10000101 is busy with address counter 5.                *)
(***************************************************************************)
C9_StatusDecode ==
  lastOp.op \in {"instructionDataRead", "lcdIsBusy", "addrCounterGet"} =>
    LET s == (16 * lcdOut[1]) + lcdOut[2]
    IN  /\ OneTransfer(Skeleton, 2, "read")
        /\ Cardinality(Falls) = 2
        /\ \A k \in 1 .. 2 : At(FallSeq[k]).rs = 0 /\ At(FallSeq[k]).rw = 1
        /\ lastOp.op = "instructionDataRead" => ret = s
        /\ lastOp.op = "lcdIsBusy" => ret = (IF s >= 128 THEN 1 ELSE 0)
        /\ lastOp.op = "addrCounterGet" => ret = s % 128
        /\ (s = 133 /\ lastOp.op = "lcdIsBusy") => ret = 1
        /\ (s = 133 /\ lastOp.op = "addrCounterGet") => ret = 5

C9_Witness ==
  /\ lastOp.op = "lcdIsBusy"
  /\ lcdOut = <<8, 5>>
  /\ ret = 1
  /\ Cardinality(Idx("comSetup")) = 1

\* the byte transfers of the last call: register and value of each pair of
\* falling edges
Transfers ==
  [k \in 1 .. (Cardinality(Falls) \div 2) |->
     [rs |-> At(FallSeq[2 * k]).rs, val |-> ByteLatched(k)]]

(***************************************************************************)
(* C10: in text mode ramDataWrite sends one non-data write of 0xC0 for     *)
(* each newline byte and never a data write of 0x0A, in source order: a    *)
(* text without escape marker and ignored whitespace is sent byte for      *)
(* byte, each newline replaced by the command; 'a', 0x0A, 'b' gives        *)
(* data 'a', command 0xC0, data 'b'.                                       *)
(***************************************************************************)
C10_Newline ==
  (lastOp.op \in {"ramDataWrite", "displayAppend"} /\ lastOp.flag /\ ~halted) =>
    LET s == buf.bytes
        t == Transfers
    IN  /\ Cardinality({k \in DOMAIN t : t[k].rs = 0})
             = Cardinality({i \in DOMAIN s : s[i] = 10})
        /\ \A k \in DOMAIN t :
             /\ t[k].rs = 0 => t[k].val = 192
             /\ ~(t[k].rs = 1 /\ t[k].val = 10)
        /\ (\A i \in DOMAIN s : s[i] \notin {9, 11, 12, 13, 96}) =>
             /\ Len(t) = Len(s)
             /\ \A k \in DOMAIN s :
                  t[k] = (IF s[k] = 10 THEN [rs |-> 0, val |-> 192]
                          ELSE [rs |-> 1, val |-> s[k]])
        /\ s = <<97, 10, 98>> =>
             t = <<[rs |-> 1, val |-> 97], [rs |-> 0, val |-> 192], [rs |-> 1, val |-> 98]>>

C10_Witness ==
  /\ lastOp.op = "ramDataWrite" /\ lastOp.flag /\ ~halted
  /\ buf.bytes = <<97, 10, 98>>
  /\ Transfers = <<[rs |-> 1, val |-> 97], [rs |-> 0, val |-> 192], [rs |-> 1, val |-> 98]>>

\* whitespace that text mode drops: tab, vertical tab, form feed, carriage return
IgnoredSpace == {9, 11, 12, 13}

\* byte i of the text s is an escape marker directly followed by a digit 0..7
EscapeAt(s, i) == s[i] = 96 /\ i < Len(s) /\ s[i + 1] \in 48 .. 55

\* byte i of s is the digit of an escape
EscapedDigit(s, i) == i > 1 /\ EscapeAt(s, i - 1)

\* byte i of s gives rise to a transfer of its own
Emits(s, i) == s[i] \notin IgnoredSpace /\ ~EscapedDigit(s, i)

\* the place, among the transfers of the call, of the transfer byte i gives rise to
Slot(s, i) == Cardinality({j \in 1 .. (i - 1) : Emits(s, j)}) + 1

Data(v) == [rs |-> 1, val |-> v]
Command(v) == [rs |-> 0, val |-> v]

(***************************************************************************)
(* C11: in text mode an escape marker (backquote) directly followed by a   *)
(* digit d, 0 <= d < 8, is consumed as one unit of two bytes and gives     *)
(* exactly one data write of the value d, neither the marker nor the       *)
(* digit's character code; the byte after the digit is processed as usual; *)
(* the text "`3" gives the single data write 3.                            *)
(***************************************************************************)
C11_Escape ==
  (lastOp.op \in {"ramDataWrite", "displayAppend"} /\ lastOp.flag /\ ~halted) =>
    LET s == buf.bytes
        t == Transfers
    IN  /\ (\E i \in DOMAIN s : EscapeAt(s, i)) =>
             Len(t) = Cardinality({j \in DOMAIN s : Emits(s, j)})
        /\ \A i \in DOMAIN s : EscapeAt(s, i) =>
             LET k == Slot(s, i)
             IN  /\ k \in DOMAIN t
                 /\ t[k] = Data(s[i + 1] - 48)
                 /\ (i + 2 <= Len(s) /\ Emits(s, i + 2)) =>
                      /\ k + 1 \in DOMAIN t
                      /\ t[k + 1] = (IF s[i + 2] = 10 THEN Command(192)
                                     ELSE IF EscapeAt(s, i + 2) THEN Data(s[i + 3] - 48)
                                     ELSE Data(s[i + 2]))
                 /\ i + 2 > Len(s) => k = Len(t)
        /\ s = <<96, 51>> => t = <<Data(3)>>

C11_Witness ==
  /\ lastOp.op = "ramDataWrite" /\ lastOp.flag /\ ~halted
  /\ buf.bytes = <<96, 51, 97>>
  /\ Transfers = <<Data(3), Data(97)>>

\* the text s without its byte i
Without(s, i) == [k \in 1 .. (Len(s) - 1) |-> IF k < i THEN s[k] ELSE s[k + 1]]

\* byte i of s stands directly between an escape marker and a decimal digit
SplitsEscape(s, i) == 1 < i /\ i < Len(s) /\ s[i - 1] = 96 /\ s[i + 1] \in 48 .. 57

\* the text is rendered, primitive for primitive, as it is without its byte i
AsIfAbsent(s, i) == log = RamLoop(Without(s, i), Len(s) - 1, TRUE, 0)

(***************************************************************************)
(* C12 as claimed: in text mode a tab, carriage return, vertical tab or    *)
(* form feed causes no bus activity at all, a space is written as the      *)
(* ordinary data byte 0x20, and the bytes around an ignored byte are       *)
(* rendered as if it were absent.                                          *)
(***************************************************************************)
C12_IgnoredAsAbsent ==
  (lastOp.op \in {"ramDataWrite", "displayAppend"} /\ lastOp.flag /\ ~halted) =>
    LET s == buf.bytes
    IN  /\ (\A i \in DOMAIN s : s[i] \in IgnoredSpace) => log = <<>>
        /\ \A i \in DOMAIN s : s[i] = 32 =>
             Slot(s, i) \in DOMAIN Transfers /\ Transfers[Slot(s, i)] = Data(32)
        /\ \A i \in DOMAIN s : s[i] \in IgnoredSpace => AsIfAbsent(s, i)

(***************************************************************************)
(* C12 as amended: in text mode a tab, carriage return, vertical tab or    *)
(* form feed causes no bus activity at all, a space is written as the      *)
(* ordinary data byte 0x20, and the bytes around an ignored byte are       *)
(* rendered as if it were absent, unless the ignored byte stands directly  *)
(* between an escape marker and a decimal digit: there it keeps the two    *)
(* from forming an escape, and the marker and the digit are written as two *)
(* ordinary data bytes.                                                    *)
(***************************************************************************)
C12_IgnoredUnlessSplitting ==
  (lastOp.op \in {"ramDataWrite", "displayAppend"} /\ lastOp.flag /\ ~halted) =>
    LET s == buf.bytes
        t == Transfers
    IN  /\ (\A i \in DOMAIN s : s[i] \in IgnoredSpace) => log = <<>>
        /\ \A i \in DOMAIN s : s[i] = 32 =>
             Slot(s, i) \in DOMAIN t /\ t[Slot(s, i)] = Data(32)
        /\ \A i \in DOMAIN s : s[i] \in IgnoredSpace =>
             IF SplitsEscape(s, i)
             THEN LET k == Slot(s, i - 1)
                  IN  /\ k + 1 \in DOMAIN t
                      /\ t[k] = Data(96)
                      /\ t[k + 1] = Data(s[i + 1])
             ELSE AsIfAbsent(s, i)

C12_Witness ==
  /\ lastOp.op = "ramDataWrite" /\ lastOp.flag /\ ~halted
  /\ buf.bytes = <<97, 13, 98>>
  /\ Transfers = <<Data(97), Data(98)>>
  /\ Cardinality(Idx("comSetup")) = 2

(***************************************************************************)
(* C13: in raw mode ramDataWrite of n bytes makes exactly n writes to the  *)
(* data register, carrying the source bytes in order and unchanged:        *)
(* newline, other whitespace and the escape marker are neither             *)
(* interpreted, nor dropped, nor merged with the byte that follows.        *)
(***************************************************************************)
C13_RawVerbatim ==
  (lastOp.op = "ramDataWrite" /\ ~lastOp.flag /\ ~halted) =>
    LET s == buf.bytes
        n == lastOp.n
    IN  /\ n = Len(s)
        /\ Cardinality(Idx("comSetup")) = n
        /\ Cardinality(Idx("comStop")) = n
        /\ Cardinality(Falls) = 2 * n
        /\ Transfers = [k \in 1 .. n |-> Data(s[k])]
        /\ \A k \in 1 .. (2 * n) : At(FallSeq[k]).rw = 0

C13_Witness ==
  /\ lastOp = Op("ramDataWrite", 3, FALSE)
  /\ ~halted
  /\ buf.bytes = <<96, 51, 10>>
  /\ Transfers = <<Data(96), Data(51), Data(10)>>

\* the pattern handed to the last newCustomCharAdd
PatternGiven == (CHOOSE p \in Patterns : (p.bytes[1] # 0) = lastOp.flag).bytes

(***************************************************************************)
(* C14: newCustomCharAdd(pattern, slot) with slot in 0..7 issues exactly   *)
(* one non-data write of 0x40 OR (slot * 8), a CGRAM address-set with bit  *)
(* 7 clear, followed by exactly 8 data writes carrying pattern[0..7] in    *)
(* order and unmodified, and nothing else.                                 *)
(***************************************************************************)
C14_CustomChar ==
  (lastOp.op = "newCustomCharAdd" /\ lastOp.n \in 0 .. 7) =>
    LET slot == lastOp.n
        t == Transfers
    IN  /\ ~halted
        /\ Cardinality(Idx("comSetup")) = 9
        /\ Cardinality(Idx("comStop")) = 9
        /\ Cardinality(Falls) = 18
        /\ Cardinality(Idx("data")) = 18 * TOTAL_PARALLEL_PIN
        /\ \A k \in 1 .. 18 : At(FallSeq[k]).rw = 0
        /\ t[1] = Command(64 + (8 * slot))
        /\ t[1].val < 128
        /\ \A k \in 1 .. 8 : t[k + 1] = Data(PatternGiven[k])
        /\ lines.en = 0

C14_Witness ==
  /\ lastOp = Op("newCustomCharAdd", 3, FALSE)
  /\ ~halted
  /\ Transfers[1] = Command(88)
  /\ Transfers[3] = Data(10)
  /\ Transfers[9] = Data(128)

\* the transfers t are the text s rendered in text mode: every byte that
\* gives rise to a transfer has it at its place, and there is no other
TextRendering(s, t) ==
  /\ Len(t) = Cardinality({j \in DOMAIN s : Emits(s, j)})
  /\ \A i \in DOMAIN s : Emits(s, i) =>
       t[Slot(s, i)] = (IF s[i] = 10 THEN Command(LCD_JUMP_LINE_COMMAND)
                        ELSE IF EscapeAt(s, i) THEN Data(s[i + 1] - 48)
                        ELSE Data(s[i]))

(***************************************************************************)
(* C15: displayWrite(s) issues the clear-display command 0x01 as a         *)
(* complete single-byte non-data transfer before any byte of s is written, *)
(* and then renders s in text mode; displayAppend(s) renders s in text     *)
(* mode and issues nothing besides: no clear-display, and no command other *)
(* than the line jump a newline of s stands for.                           *)
(***************************************************************************)
C15_WriteClearsAppendDoesNot ==
  LET s == buf.bytes
      t == Transfers
  IN  /\ (lastOp.op = "displayWrite" /\ ~halted) =>
           /\ Len(Skeleton) >= 5
           /\ OneTransfer(SubSeq(Skeleton, 1, 5), 2, "data")
           /\ t[1] = Command(LCD_CLEAR_COMMAND)
           /\ At(FallSeq[1]).rw = 0 /\ At(FallSeq[2]).rw = 0
           /\ TextRendering(s, Tail(t))
           /\ Cardinality(Idx("comSetup")) = Len(t)
           /\ Cardinality(Idx("comStop")) = Len(t)
      /\ (lastOp.op = "displayAppend" /\ ~halted) =>
           /\ TextRendering(s, t)
           /\ Cardinality(Idx("comSetup")) = Len(t)
           /\ \A k \in DOMAIN t :
                /\ t[k] # Command(LCD_CLEAR_COMMAND)
                /\ t[k].rs = 0 =>
                     /\ t[k].val = LCD_JUMP_LINE_COMMAND
                     /\ \E i \in DOMAIN s : s[i] = 10 /\ Slot(s, i) = k

C15_Witness ==
  /\ lastOp.op = "displayWrite" /\ ~halted
  /\ buf.bytes = <<97, 10, 98>>
  /\ Transfers = <<Command(1), Data(97), Command(192), Data(98)>>

\* a primitive that writes a bus line: RS, RW, enable or a data line
WritesLine(e) == e.ev \in {"rs", "rw", "en", "data"}

(***************************************************************************)
(* C16: displayWrite and displayAppend treat a null, zero-length or        *)
(* longer-than-32-byte text as fatal, a text of exactly 32 bytes is        *)
(* accepted, and when they halt for such a text the call has not written   *)
(* any bus line (RS, RW, enable, data).                                    *)
(***************************************************************************)
C16_RejectBeforeBus ==
  lastOp.op \in {"displayWrite", "displayAppend"} =>
    LET refused == buf.null \/ Len(buf.bytes) = 0 \/ Len(buf.bytes) > LCD_MAX_PRINT_STRING
    IN  /\ halted = refused
        /\ halted => (SelectSeq(log, WritesLine) = <<>> /\ lines = pre)

\* the description pinDescCheck accepts
Accepted(pinDesc) == ~Halted(pinDescCheck(pinDesc))

\* the lines of the configuration whose description is refused
RefusedLines ==
  {p \in Pins : ~Accepted(cfg.parallelPinList[p])}
  \cup (IF Accepted(cfg.regSelectPin) THEN {} ELSE {RS_PIN})
  \cup (IF Accepted(cfg.readWritePin) THEN {} ELSE {RW_PIN})
  \cup (IF Accepted(cfg.enablePin) THEN {} ELSE {EN_PIN})
  \cup (IF Accepted(cfg.backLightPin) THEN {} ELSE {BL_PIN})

\* a primitive that sets the direction or the drive strength of a pin
ConfiguresPin(e) == e.ev \in {"ctlmode", "pad", "mode"}

(***************************************************************************)
(* C17: init() halts when the description of any configured line (RS, RW,  *)
(* enable, backlight, a data line) names an unknown clock, port or pin or  *)
(* a specially allocated pin, and it halts before any GPIO line has been   *)
(* configured: no direction and no drive strength has been set for any pin *)
(* when at least one description is refused.                               *)
(***************************************************************************)
C17_InitChecksFirst ==
  LET configured == IF cfg.useBacklight THEN AllLines ELSE AllLines \ {BL_PIN}
  IN  (lastOp.op = "init" /\ RefusedLines \cap configured # {}) =>
        /\ halted
        /\ SelectSeq(log, ConfiguresPin) = <<>>

(***************************************************************************)
(* C18: the backlight line is optional: when useBacklight is false, init() *)
(* succeeds without an acceptable backLightPin description, and neither    *)
(* init() nor backLedSwitch() validates, configures or drives the          *)
(* backlight pin.                                                          *)
(***************************************************************************)
C18_BacklightOptional ==
  ~cfg.useBacklight =>
    /\ (lastOp.op = "init" /\ RefusedLines \subseteq {BL_PIN}) => ~halted
    /\ lastOp.op \in {"init", "backLedSwitch"} =>
         \A i \in DOMAIN log :
           /\ ~(log[i].ev \in {"pinDescCheck", "clock", "ctlmode", "pad"} /\ log[i].pin = BL_PIN)
           /\ log[i].ev # "bl"

(***************************************************************************)
(* C19: stopTimer(since) returns tickToTime(now - since) when the counter  *)
(* value now is greater than since, and                                    *)
(* tickToTime((TIMER_LOAD - since) + now) when now <= since, TIMER_LOAD    *)
(* being the counter's maximum value; that second branch is also the one   *)
(* taken when now = since, which then gives tickToTime(TIMER_LOAD).        *)
(***************************************************************************)
C19_Elapsed ==
  lastOp.op = "stopTimer" =>
    LET since == lastOp.n
        now == tm.currTimeStamp
    IN  /\ now > since => ret \in tickToTime(tm.scale, now - since)
        /\ now <= since => ret \in tickToTime(tm.scale, (TIMER_LOAD - since) + now)
        /\ now = since => ret \in tickToTime(tm.scale, TIMER_LOAD)

C19_Witness ==
  /\ lastOp.op = "stopTimer"
  /\ lastOp.n = tm.currTimeStamp
  /\ tm.scale = Scale(1, 1)
  /\ ret = TIMER_LOAD

(***************************************************************************)
(* C20: wait(0) returns at once for every counter value at entry: the loop *)
(* body is never executed, so no advance of the hardware counter is        *)
(* needed.                                                                 *)
(***************************************************************************)
C20_WaitZero ==
  (lastOp.op = "wait" /\ lastOp.n = 0 /\ ~halted) =>
    /\ tm.tickToWait = 0
    /\ tm.pc # "body"
    /\ ~tm.bodyRan

C20_Witness ==
  /\ lastOp = Op("wait", 0, FALSE)
  /\ tm.pc = "idle"
  /\ tm.count = tm.currTimeStamp
  /\ tm.count = TIMER_LOAD
  /\ ~tm.bodyRan

(***************************************************************************)
(* C21: wait(d) does not return before the hardware counter has advanced   *)
(* by at least timeToTick(d) ticks since wait was entered, both when the   *)
(* counter does not wrap during the wait and when it wraps exactly once.   *)
(***************************************************************************)
C21_WaitLongEnough ==
  (lastOp.op = "wait" /\ tm.pc = "idle" /\ ~halted /\ tm.wraps <= 1) =>
    tm.advanced >= tm.tickToWait

\* without a wrap of the counter during the wait, it is long enough
NoWrapWaitLongEnough ==
  (lastOp.op = "wait" /\ tm.pc = "idle" /\ ~halted /\ tm.wraps = 0) =>
    tm.advanced >= tm.tickToWait

(***************************************************************************)
(* C22: across any number of GeneralTimer constructions with any time      *)
(* units, the hardware counter is configured, loaded and enabled exactly   *)
(* once, by the first construction; every later construction leaves the    *)
(* running counter untouched and only sets the scale of its instance, and  *)
(* no timer operation (startTimer, stopTimer, wait) ever writes or resets  *)
(* the counter.                                                            *)
(***************************************************************************)
C22_ConfiguredOnce ==
  /\ [](tm.setups = IF tm.isConfigured THEN 1 ELSE 0)
  /\ [][/\ CallGeneralTimer =>
             IF tm.isConfigured
             THEN tm' = [Idle(tm) EXCEPT !.scale = tm'.scale]
             ELSE tm'.isConfigured /\ tm'.setups = 1 /\ tm'.count = 0
         /\ (CallStartTimer \/ CallStopTimer \/ CallWait \/ WaitTest \/ WaitBody) =>
             /\ tm'.count = tm.count
             /\ tm'.setups = tm.setups
             /\ tm'.isConfigured = tm.isConfigured]_vars

\* a second construction, with another unit, on the running counter
C22_Witness ==
  /\ lastOp.op = "GeneralTimer"
  /\ tm.scale = Scale(1, 2)
  /\ tm.count = 3
  /\ tm.setups = 1

(***************************************************************************)
(* C23: for every positive duration d and every positive scale s (time     *)
(* units per tick), tickToTime(timeToTick(d)) differs from d by less than  *)
(* the time of one tick, and is never greater than d.  Durations whose     *)
(* tick count does not fit the unsigned width are left out.                *)
(***************************************************************************)
C23_RoundTrip ==
  lastOp.op = "tickToTime" =>
    \A d \in 1 .. Wrap - 1 :
      ((d * tm.scale.den) \div tm.scale.num < Wrap
       /\ lastOp.n \in timeToTick(tm.scale, d)) =>
        /\ ret <= d
        /\ (d - ret) * tm.scale.den < tm.scale.num

\* the round trip never gives more than d, and less by under a tick and a unit
RoundTripWithinTickAndUnit ==
  lastOp.op = "tickToTime" =>
    \A d \in 1 .. Wrap - 1 :
      ((d * tm.scale.den) \div tm.scale.num < Wrap
       /\ lastOp.n \in timeToTick(tm.scale, d)) =>
        /\ ret <= d
        /\ (d - ret) * tm.scale.den < tm.scale.num + tm.scale.den

\* the position of the highest bit set in a byte
HighBit(x) == Max({n \in 0 .. 7 : BitOf(x, n) = 1})

(***************************************************************************)
(* C24: for all eight combinations of its flags, functionSetCommandCreate  *)
(* returns exactly 0x20 + 0x10*is8BitDataLen + 0x08*is2Lines +             *)
(* 0x04*is5x10Font, with bits 0, 1, 6 and 7 clear; (false, true, false)    *)
(* gives 0b00101000.                                                       *)
(***************************************************************************)
C24_FunctionSet ==
  lastOp.op = "functionSetCommandCreate" =>
    /\ ret = 32 + (16 * BitOf(lastOp.n, 2)) + (8 * BitOf(lastOp.n, 1)) + (4 * BitOf(lastOp.n, 0))
    /\ \A b \in {0, 1, 6, 7} : BitOf(ret, b) = 0
    /\ lastOp.n = 2 => ret = 40

C24_Witness ==
  /\ lastOp = Op("functionSetCommandCreate", 7, FALSE)
  /\ ret = 60

(***************************************************************************)
(* C25: displayCommandCreate returns 0x08 + 4*displayOn + 2*cursorOn +     *)
(* isCursorBlink, entryModeCommandCreate returns 0x04 + 2*cursorRightDir + *)
(* displayShiftEnabled, cursorDisplayShiftCommandCreate returns 0x10 +     *)
(* 8*isShiftDisplay + 4*isRight; no other bit is set, so the highest set   *)
(* bit tells the command family.                                           *)
(***************************************************************************)
C25_OtherCommands ==
  /\ lastOp.op = "displayCommandCreate" =>
        /\ ret = 8 + (4 * BitOf(lastOp.n, 2)) + (2 * BitOf(lastOp.n, 1)) + BitOf(lastOp.n, 0)
        /\ HighBit(ret) = 3
  /\ lastOp.op = "entryModeCommandCreate" =>
        /\ ret = 4 + (2 * BitOf(lastOp.n, 1)) + BitOf(lastOp.n, 0)
        /\ HighBit(ret) = 2
  /\ lastOp.op = "cursorDisplayShiftCommandCreate" =>
        /\ ret = 16 + (8 * BitOf(lastOp.n, 1)) + (4 * BitOf(lastOp.n, 0))
        /\ HighBit(ret) = 4

C25_Witness ==
  /\ lastOp = Op("cursorDisplayShiftCommandCreate", 3, FALSE)
  /\ ret = 28

\* the level of the read/write line as primitive i found it
RwAt(i) == LastVal(log, i, "rw", 0, pre.rw)

\* the wait requested right after primitive i
WaitAfter(i) == IF i < Len(log) /\ log[i + 1].ev = "wait" THEN log[i + 1].val ELSE 0

(***************************************************************************)
(* C26: the propagation delay waited right after each rising edge of       *)
(* enable (in comSetup and in comMaintain) is strictly longer for a read   *)
(* transfer than for a write transfer, with the timing constants as they   *)
(* expand in the code.                                                     *)
(***************************************************************************)
C26_ReadDelayLonger ==
  \A i \in Rises, j \in Rises :
    (RwAt(i) = 1 /\ RwAt(j) = 0) => WaitAfter(i) > WaitAfter(j)

\* consecutive rising edges of enable with no comSetup between them: two
\* edges of one transfer
SameTransferRises ==
  LET r == Ascending(Rises)
  IN  {<<r[k], r[k + 1]>> : k \in {n \in 1 .. (Len(r) - 1) :
                                     \A i \in r[n] .. r[n + 1] : log[i].ev # "comSetup"}}

(***************************************************************************)
(* C27: in every multi-unit transfer, write or read, the waits requested   *)
(* between two consecutive rising edges of the enable line sum to at least *)
(* LCD_MIN_CYCLE_TIME_NANOSEC (410 * COM_TIME_SCALER), the macro           *)
(* expressions being evaluated as the preprocessor expands them.           *)
(***************************************************************************)
C27_MinCycle ==
  \A p \in SameTransferRises : WaitSum(p[1], p[2]) >= LCD_MIN_CYCLE_TIME_NANOSEC

\* a read of two bytes: write cycles for the address, read cycles after
C27_Witness ==
  /\ lastOp.op = "ramDataRead"
  /\ \E p \in SameTransferRises : RwAt(p[1]) = 0
  /\ \E p \in SameTransferRises : RwAt(p[1]) = 1 /\ WaitSum(p[1], p[2]) > LCD_MIN_CYCLE_TIME_NANOSEC

(***************************************************************************)
(* C28: cursorPositionChange(x, y) with x <= 15 and y <= 1 transmits       *)
(* exactly one non-data write of 0x80 OR (y << 6) OR x, so (0, 1)          *)
(* transmits 0xC0, the byte of the jump-line command; with x > 15 or       *)
(* y > 1 it halts before any bus line is toggled.                          *)
(***************************************************************************)
C28_CursorPosition ==
  lastOp.op = "cursorPositionChange" =>
    LET x == lastOp.n % 32
        y == lastOp.n \div 32
    IN  IF x <= 15 /\ y <= 1
        THEN /\ ~halted
             /\ Transfers = <<Command(128 + (64 * y) + x)>>
             /\ (x = 0 /\ y = 1) => Transfers[1].val = LCD_JUMP_LINE_COMMAND
        ELSE /\ halted
             /\ \A i \in DOMAIN log : ~WritesLine(log[i]) /\ log[i].ev # "mode"
             /\ lines = pre

C28_Witness ==
  /\ lastOp = Op("cursorPositionChange", 32 + 15, TRUE)
  /\ ~halted
  /\ Transfers = <<Command(207)>>

\* a column beyond the last one is refused
CursorRefused ==
  /\ lastOp = Op("cursorPositionChange", 16, TRUE)
  /\ halted

\* the intervals in which enable is high: a rising edge and the falling edge
\* that ends it
HighIntervals ==
  {<<r, f>> \in Rises \X Falls :
     r < f /\ \A k \in (r + 1) .. (f - 1) : k \notin Falls}

(***************************************************************************)
(* C29: in every transfer, write or read (comSetup, comMaintain and        *)
(* comStop in any legal combination), each interval during which the       *)
(* enable line is high spans requested waits that sum to at least          *)
(* LCD_PULSE_WIDTH_NANOSEC (200 * COM_TIME_SCALER).                        *)
(***************************************************************************)
C29_PulseWidth ==
  \A p \in HighIntervals : WaitSum(p[1], p[2]) >= LCD_PULSE_WIDTH_NANOSEC

\* the part of C29 about writes
WritePulseWidth ==
  \A p \in HighIntervals : RwAt(p[1]) = 0 => WaitSum(p[1], p[2]) >= LCD_PULSE_WIDTH_NANOSEC

\* the primitives that act on a data line: a level written, a direction set
DataChanges == Idx("data") \cup Idx("mode")

\* the last change of a data line before primitive i, the start of the call
\* when there is none; the first one after it, the return of the call when
\* there is none
ChangeBefore(i) == Max({0} \cup {j \in DataChanges : j < i})
ChangeAfter(i) ==
  LET later == {j \in DataChanges : j > i}
  IN  IF later = {} THEN Len(log) + 1
      ELSE CHOOSE j \in later : \A k \in later : j <= k

(***************************************************************************)
(* C30: in every write path (parallelDataWriteSingle, parallelDataWrite,   *)
(* dataWrite4Bit) the data-line levels of a unit are not changed for at    *)
(* least LCD_DATA_SETUP_TIME_NANOSEC of requested wait before the falling  *)
(* edge of enable that latches the unit, and for at least                  *)
(* LCD_DATA_HOLD_TIME_NANOSEC of requested wait after that falling edge,   *)
(* also across consecutive calls: the hold time has been waited for when   *)
(* the call returns.                                                       *)
(***************************************************************************)
C30_SetupAndHold ==
  \A f \in Falls :
    /\ WaitSum(ChangeBefore(f), f) >= LCD_DATA_SETUP_TIME_NANOSEC
    /\ WaitSum(f, ChangeAfter(f)) >= LCD_DATA_HOLD_TIME_NANOSEC

\* two bytes written in one call, after a call that left enable high
C30_Witness ==
  /\ lastOp = Op("parallelDataWrite", 2, TRUE)
  /\ ~halted
  /\ pre.en = 1
  /\ Cardinality(Falls) = 4
  /\ \E f \in Falls : ChangeAfter(f) = Len(log) + 1

\* byte i of the text s is an escape marker that is the last byte or is not
\* followed by a digit 0..7
LoneMarker(s, i) == s[i] = 96 /\ ~EscapeAt(s, i)

\* what byte i of s is rendered as when it gives rise to a transfer
Rendered(s, i) ==
  IF s[i] = 10 THEN Command(LCD_JUMP_LINE_COMMAND)
  ELSE IF EscapeAt(s, i) THEN Data(s[i + 1] - 48)
  ELSE Data(s[i])

Period == TIMER_LOAD + 1

(***************************************************************************)
(* C32: if the hardware counter keeps advancing and the requested tick     *)
(* count timeToTick(d) is smaller than the counter period, wait(d)         *)
(* eventually returns, whatever the counter value at entry and whether or  *)
(* not the counter wraps during the wait.                                  *)
(***************************************************************************)
C32_WaitReturns ==
  (tm.pc # "idle" /\ tm.tickToWait < Period) ~> (tm.pc = "idle")

\* wait(d) eventually returns when, besides, the ticks that pass between two
\* tests of the loop (at most MaxLag before the test and MaxLag before the
\* body) are fewer than the period exceeds the requested tick count by
PacedWaitReturns ==
  (tm.pc # "idle" /\ tm.tickToWait + (2 * MaxLag) < Period) ~> (tm.pc = "idle")

\* a wait of six ticks has returned after the counter wrapped
PacedWaitReturned ==
  /\ tm.paced
  /\ lastOp.op = "wait"
  /\ tm.pc = "idle"
  /\ tm.tickToWait = 6
  /\ tm.wraps = 1
  /\ tm.bodyRan

\* the level of the line named by primitive i (register select or read/write)
\* right before it
SelectAt(i) == LastVal(log, i, log[i].ev, 0, IF log[i].ev = "rs" THEN pre.rs ELSE pre.rw)

\* the writes of the register-select and read/write lines made while enable
\* is high
SelectWritesHigh == {i \in Idx("rs") \cup Idx("rw") : EnAt(i) = 1}

(***************************************************************************)
(* C33: the levels of the register-select and read/write lines never       *)
(* change while the enable line is high, in every sequence of calls of the *)
(* public interface, including the begin nibble followed by the            *)
(* configuration bytes in enable(): a write of either line made while      *)
(* enable is high writes the level the line already has.                   *)
(***************************************************************************)
C33_SelectStable == \A i \in SelectWritesHigh : log[i].val = SelectAt(i)

\* enable() has run: the comSetup of the configuration bytes wrote both lines
\* while the begin nibble had left enable high
C33_Witness ==
  /\ lastOp.op = "enable"
  /\ ~halted
  /\ \E i \in SelectWritesHigh : log[i].ev = "rs"
  /\ \E i \in SelectWritesHigh : log[i].ev = "rw"

\* whether data line p is configured as an input right before primitive i
InputAt(i, p) == LastVal(log, i, "mode", p, B2N(pre.dirIn[p])) = 1

\* the last write of the enable line before primitive f, 0 when there is none
EnBefore(f) ==
  LET before == {j \in 1 .. (f - 1) : log[j].ev = "en"}
  IN  IF before = {} THEN 0 ELSE Max(before)

(***************************************************************************)
(* C34: every sample of a data line taken by parallelDataRead is taken     *)
(* while the data lines are configured as inputs, the read/write line is   *)
(* high and the enable line is high, and each unit is sampled exactly once *)
(* per enable-high interval, before the falling edge that ends it: when a  *)
(* read samples at all, every interval during which enable is high with    *)
(* the read/write line high holds exactly one sample of each data line.    *)
(***************************************************************************)
C34_SampledWhileReading ==
  LET reads == Idx("read")
  IN  /\ \A i \in reads :
           /\ \A p \in Pins : InputAt(i, p)
           /\ RwAt(i) = 1
           /\ EnAt(i) = 1
      /\ reads # {} =>
           \A f \in Idx("en") :
              (log[f].val = 0 /\ EnAt(f) = 1 /\ RwAt(f) = 1) =>
                LET r == EnBefore(f)
                IN  \A p \in Pins :
                      Cardinality({i \in reads : log[i].pin = p /\ r < i /\ i < f}) = 1

\* a read of two bytes from the instruction register: four intervals during
\* which enable is high, sixteen samples
C34_Witness ==
  /\ lastOp = Op("parallelDataRead", 2, FALSE)
  /\ Cardinality(HighIntervals) = 4
  /\ Cardinality(Idx("read")) = 4 * TOTAL_PARALLEL_PIN

\* the points of the last call at which the direction of the data lines or
\* the level of read/write or enable may have changed, and its entry
BusPoints == {1} \cup {i + 1 : i \in Idx("mode") \cup Idx("rw") \cup Idx("en")}

\* right before primitive i a data line is an output while the controller is
\* told to drive the bus
Contention(i) == EnAt(i) = 1 /\ RwAt(i) = 1 /\ \E p \in Pins : ~InputAt(i, p)

(***************************************************************************)
(* C35: in any interleaving of read transfers and write transfers after    *)
(* init there is no reachable state in which the data lines are configured *)
(* as outputs while the read/write line is high and the enable line is     *)
(* high.                                                                   *)
(***************************************************************************)
C35_NoContention == \A i \in BusPoints : ~Contention(i)

\* a read entered with the data lines as outputs and enable left high by
\* dataWrite4Bit(.., false): read/write goes high while enable is high
C35_Witness ==
  /\ lastOp.op = "parallelDataRead"
  /\ pre.en = 1
  /\ \A p \in Pins : ~pre.dirIn[p]
  /\ \E i \in Idx("rw") : log[i].val = 1 /\ EnAt(i) = 1

(***************************************************************************)
(* C36: after init, in any sequence of transfers, including a status or    *)
(* RAM read followed by enable(), every level written to a data line by a  *)
(* write path (parallelDataWriteSingle, parallelDataWrite, dataWrite4Bit)  *)
(* is written while the data lines are configured as outputs.              *)
(***************************************************************************)
C36_WritesOnOutputs == \A i \in Idx("data") : \A p \in Pins : ~InputAt(i, p)

\* the write paths that switch the data lines to outputs themselves do write
\* on outputs
SwitchedWritesOnOutputs ==
  lastOp.op \in {"parallelDataWriteSingle", "parallelDataWrite"} => C36_WritesOnOutputs

\* enable() has run right after a read
EnableAfterRead ==
  /\ lastOp.op = "enable"
  /\ \A p \in Pins : pre.dirIn[p]
  /\ pre.rw = 1

\* the units parallelDataWriteSingle(b, ..) drives: the levels of the data
\* lines at the falling edges of enable of its run
WrittenUnits(b) ==
  LET t == parallelDataWriteSingle(b, TRUE)
      falls == Ascending({i \in DOMAIN t : t[i] = E("en", 0, 0)})
  IN  [k \in DOMAIN falls |-> Nibble(LinesAt(ResetLines, t, falls[k]).d)]

(***************************************************************************)
(* C37: write and read use the same unit layout: for every byte b in       *)
(* 0..255, if the controller drives on the data lines, unit by unit,       *)
(* exactly the levels that parallelDataWriteSingle(b) would drive,         *)
(* parallelDataRead of one byte returns b.                                 *)
(***************************************************************************)
C37_ReadBack ==
  (lastOp.op = "parallelDataRead" /\ lastOp.n = 1) =>
    \A b \in 0 .. 255 : lcdOut = WrittenUnits(b) => rd = <<b>>

\* 0xA7, whose nibbles differ, written, echoed and read back
C37_Witness ==
  /\ lastOp.op = "parallelDataRead"
  /\ lastOp.n = 1
  /\ buf = Buffer(<<167>>)
  /\ lcdOut = <<10, 7>>
  /\ rd = <<167>>

\* the ticks by which the counter has advanced from the time stamp since to
\* the time stamp now, within one period
TicksBetween(since, now) == (now + Period - since) % Period

(***************************************************************************)
(* C38: if the counter has advanced by k ticks between startTimer and      *)
(* stopTimer, with 0 <= k smaller than one full counter period (so at most *)
(* one wrap), stopTimer returns tickToTime(k); in particular it returns 0  *)
(* when the counter has not advanced.                                      *)
(***************************************************************************)
C38_ElapsedTicks ==
  lastOp.op = "stopTimer" =>
    ret \in tickToTime(tm.scale, TicksBetween(lastOp.n, tm.currTimeStamp))

\* without a wrap, and with the counter having advanced, stopTimer does
\* return tickToTime(k)
ElapsedTicksWithoutWrap ==
  (lastOp.op = "stopTimer" /\ tm.currTimeStamp > lastOp.n) =>
    ret \in tickToTime(tm.scale, TicksBetween(lastOp.n, tm.currTimeStamp))

\* stopTimer called with the time stamp the counter still reads
StoppedAtOnce ==
  /\ lastOp.op = "stopTimer"
  /\ lastOp.n = tm.currTimeStamp
  /\ tm.scale = Scale(1, 1)
  /\ ret # 0

(***************************************************************************)
(* C39: newCustomCharAdd accepts only the slots 0..7: a slot >= 8 halts    *)
(* before any bus activity, so an accepted slot is told by its CGRAM       *)
(* address-set byte 0x40 + 8 * slot, which differs for distinct accepted   *)
(* slots and starts disjoint 8-byte CGRAM ranges.                          *)
(***************************************************************************)
C39_SlotRange ==
  lastOp.op = "newCustomCharAdd" =>
    /\ lastOp.n >= 8 => (halted /\ log = <<E("halt", 0, 0)>>)
    /\ ~halted => (lastOp.n \in 0 .. 7 /\ Transfers[1] = Command(64 + (8 * lastOp.n)))

\* the slots that are refused are those from MAX_CUSTOM_PATTERN on
SlotRefusedFromSixteen ==
  lastOp.op = "newCustomCharAdd" => (halted <=> lastOp.n >= MAX_CUSTOM_PATTERN)

\* slot 8 is accepted and sends the address-set byte of slot 0
SlotEightAsSlotZero ==
  /\ lastOp.op = "newCustomCharAdd"
  /\ lastOp.n = 8
  /\ ~halted
  /\ Transfers[1] = Command(64)

(***************************************************************************)
(* C40: parallelDataWrite and parallelDataRead called with a length of 0   *)
(* make the controller latch or output no unit: they produce no falling    *)
(* edge of the enable line (the number of falling edges is 2 * length for  *)
(* every length >= 0 with 4 data lines).                                   *)
(***************************************************************************)
C40_FallsTwiceLength ==
  lastOp.op \in {"parallelDataWrite", "parallelDataRead"} =>
    Cardinality(Falls) = 2 * lastOp.n

\* from length 1 on the number of falling edges is 2 * length
FallsTwiceLengthFromOne ==
  (lastOp.op \in {"parallelDataWrite", "parallelDataRead"} /\ lastOp.n >= 1) =>
    Cardinality(Falls) = 2 * lastOp.n

\* a transfer of length 0 has made one falling edge of enable
EmptyTransferPulses ==
  /\ lastOp.op \in {"parallelDataWrite", "parallelDataRead"}
  /\ lastOp.n = 0
  /\ Cardinality(Falls) = 1

====
